---- MODULE Spec2Model ----
(***************************************************************************)
(* State-machine model of the CryptoMind monitoring service.               *)
(*                                                                         *)
(* The repository holds two builds of the service:                         *)
(*   "v1.2.0"  src/src/index.ts      (entry zone, numeric targets_hit)     *)
(*   "v3.2.0"  src/unnamed/part_002  (circuit breaker, targets_hit a list) *)
(* The variable build says which one runs; it is chosen once, in Init.     *)
(*                                                                         *)
(* Prices are integers.  EPSILON = 0.001 is the fraction                   *)
(* EPSILON_NUM / EPSILON_DEN, and a comparison such as                     *)
(* price >= target * (1 - EPSILON) is made on both sides times EPSILON_DEN.*)
(*                                                                         *)
(* Two specifications share the state: SpecPos runs the position monitor,  *)
(* SpecTrig the trigger detector with its circuit breaker.  Each websocket *)
(* message is taken to arrive in a turn of its own, so a call suspends     *)
(* only where it awaits a request (an insert, an update, a fetch); an      *)
(* await of a call that returned without a request resumes in that turn.   *)
(* In SpecTrig time is in minutes.                                         *)
(***************************************************************************)
EXTENDS Integers, Sequences, FiniteSets, Bags, TLC

\* ---------------------------------------------------------------- bounds
\* Ticks delivered to the position monitor in one behaviour.
MaxTicks == 2
\* checkStrategy calls that may be suspended on an await at the same time.
MaxPending == 2
\* Ticks delivered to the trigger detector in one behaviour.
MaxTickers == 3
\* The last minute of the clock.
MaxTime == 30
\* WebSockets that are not closed at the same time.
MaxSockets == 2
\* Calls of the monitor that may be suspended on a select at the same time.
MaxCalls == 2
\* Timers of one kind the event loop may hold at the same time.
MaxTimers == 2

\* ------------------------------------------------------------- constants
EPSILON_NUM == 1
EPSILON_DEN == 1000

Builds == {"v1.2.0", "v3.2.0"}
Symbols == {"BTCUSDT"}
StrategyOrder == <<"s1">>
StrategyIds == {StrategyOrder[i] : i \in 1..Len(StrategyOrder)}

Null == 0

\* The rows the dashboard creates in active_strategies (ActiveStrategy).
LongStrategy ==
    [symbol |-> "BTCUSDT", position_type |-> "LONG",
     entry_min |-> 950, entry_max |-> 1000,
     target_1 |-> 1100, target_2 |-> 1200, target_3 |-> 1300,
     stop_loss |-> 900]

ShortStrategy ==
    [symbol |-> "BTCUSDT", position_type |-> "SHORT",
     entry_min |-> 1199, entry_max |-> 1250,
     target_1 |-> 1098, target_2 |-> 999, target_3 |-> 900,
     stop_loss |-> 1300]

\* A row whose stop-loss lies at its last target: no column of
\* active_strategies is checked against another.
OverlapStrategy ==
    [symbol |-> "BTCUSDT", position_type |-> "LONG",
     entry_min |-> 950, entry_max |-> 1000,
     target_1 |-> 1100, target_2 |-> 1200, target_3 |-> 1300,
     stop_loss |-> 1300]

StrategyRows == {LongStrategy, ShortStrategy}

\* Close prices the feed delivers: at the stop, in the entry zone, and just
\* inside the tolerance of each target of LongStrategy (mirrored for Short).
Prices == {900, 1000, 1099, 1199, 1299}

InitialPrice == 1000

\* ---------------------------------------------------- trigger detector
\* Time is in minutes.  CONFIG of part_002 (33-50) and index.ts (107, 146, 185).
VOLUME_BASELINE_UPDATE == 60
PRICE_WINDOW == 5
TRIGGER_COOLDOWN == 5
CIRCUIT_BREAKER_WINDOW == 15
CIRCUIT_BREAKER_COOLDOWN == 30
\* CIRCUIT_BREAKER_THRESHOLD = 0.05 = 5/100
CIRCUIT_BREAKER_THRESHOLD_PCT == 5
\* VOLUME_SPIKE_THRESHOLD = 1.20 = 120/100
VOLUME_SPIKE_THRESHOLD_PCT == 120
\* PRICE_MOVE_THRESHOLD = 0.005 = 5/1000
PRICE_MOVE_THRESHOLD_PERMILLE == 5
\* A baseline is kept as BASELINE_DEN times its value, which is exact for
\* two EWMA steps (each divides by 5).
BASELINE_DEN == 25

\* Close prices and quote volumes of the ticker stream: 100 -> 95 is a move
\* of exactly 5%, 100 -> 101 one of 1%; 13 is 130% of 10.
TickerPrices == {95, 100, 101}
TickerVolumes == {10, 13}
\* The minutes at which something happens: they lie 1, 4, 5, 10, 11, 15, 25,
\* 26 and 30 minutes apart, on both sides of every window and cooldown.
Instants == {0, 4, 5, 15, 30}

TriggerTypes == {"volume_spike", "price_move"}

\* A key a Map does not hold.
Absent == -1

NoBreaker ==
    [active |-> FALSE, activatedAt |-> 0, expiresAt |-> 0, reason |-> ""]

NoRow == [status |-> "absent", targets_hit |-> 0, current_price |-> 0]

VARIABLES
    build,             \* which source file runs
    cfg,               \* id -> the strategy's immutable columns
    store,             \* table active_strategies: id -> mutable columns
    activeStrategies,  \* PositionMonitor's map: symbol -> list of strategies
    reload,            \* the pending select of a reload and the rows it read
    tasks,             \* checkStrategy calls suspended on an await
    tick,              \* ticks handed to checkPrice so far
    updates,           \* state-changing updates issued: [tick,id,...]
    notifications,     \* notify-strategy-event calls issued: [tick,id,eventType]
    zeroRows           \* ids whose update changed no row since the last reload

VARIABLES
    now,               \* Date.now(), in minutes
    baselines,         \* BaselineTracker.baselines: symbol -> 25 * baseline
    lastUpdate,        \* BaselineTracker.lastUpdate: symbol -> time
    history,           \* PriceHistoryTracker.history: symbol -> points
    priceHistory15m,   \* CircuitBreaker.priceHistory15m: symbol -> points
    activeBreakers,    \* CircuitBreaker.activeBreakers: symbol -> state
    recentTriggers,    \* TriggerDetector.recentTriggers: key -> time
    inserts,           \* createTrigger calls suspended on their insert
    tickers,           \* what each ticker handled so far met and was told
    triggerWrites,     \* inserts into monitoring_triggers issued
    triggers,          \* rows of monitoring_triggers
    gated,             \* `Blocked by circuit breaker` lines logged
    errors,            \* `Database error` lines logged by createTrigger
    epoch              \* clear() / reset() calls so far

trigVars == <<now, baselines, lastUpdate, history, priceHistory15m,
              activeBreakers, recentTriggers, inserts, tickers, triggerWrites,
              triggers, gated, errors, epoch>>

posVars == <<cfg, store, activeStrategies, reload, tasks, tick, updates,
             notifications, zeroRows>>

VARIABLES
    config,            \* table system_config and whether a select succeeds
    monitor,           \* fields of BinanceMonitor, its PositionMonitor and detector
    timers,            \* timers the event loop holds, by the field that names them
    sockets,           \* the WebSockets created: "open", "closing", "closed"
    calls,             \* calls of the monitor suspended on a select
    process            \* "new", "starting", "serving" (signal handlers set), "exited"

monVars == <<config, monitor, timers, sockets, calls, process>>

\* What no action of the position monitor touches.
others == <<build, trigVars, monVars>>

vars == <<build, posVars, trigVars, monVars>>

\* ------------------------------------------------------- price predicates
\* price >= level * (1 - EPSILON)
GeTol(price, level) == price * EPSILON_DEN >= level * (EPSILON_DEN - EPSILON_NUM)

\* price <= level * (1 + EPSILON)
LeTol(price, level) == price * EPSILON_DEN <= level * (EPSILON_DEN + EPSILON_NUM)

Abs(x) == IF x < 0 THEN -x ELSE x

RowExists(id) == store[id].status # "absent"

\* ------------------------------------------- v1.2.0: PositionMonitor
isLong(c) == c.position_type = "LONG"

\* index.ts 398-419: the entry range check of a waiting_entry strategy.
\* entry_min && entry_max is false for null and for 0.
entryReached(strategy, c, currentPrice) ==
    /\ strategy.status = "waiting_entry"
    /\ c.entry_min # Null
    /\ c.entry_max # Null
    /\ IF isLong(c) THEN currentPrice <= c.entry_max
                    ELSE currentPrice >= c.entry_min

\* One rung of the ladder: LONG price >= target*(1-EPSILON),
\* SHORT price <= target*(1+EPSILON).
targetReached(c, currentPrice, target) ==
    IF isLong(c) THEN GeTol(currentPrice, target) ELSE LeTol(currentPrice, target)

\* index.ts 425-509: the new targets_hit of a strategy that is
\* in_position, by its recorded targets_hit.
newTargetsHit(strategy, c, currentPrice) ==
    LET h3 == targetReached(c, currentPrice, c.target_3)
        h2 == targetReached(c, currentPrice, c.target_2)
        h1 == targetReached(c, currentPrice, c.target_1)
    IN  CASE strategy.targets_hit = 0 ->
                 IF h3 THEN 3 ELSE IF h2 THEN 2 ELSE IF h1 THEN 1 ELSE 0
          [] strategy.targets_hit = 1 ->
                 IF h3 THEN 3 ELSE IF h2 THEN 2 ELSE 1
          [] strategy.targets_hit = 2 ->
                 IF h3 THEN 3 ELSE 2
          [] OTHER -> strategy.targets_hit

\* index.ts 517-531
stopLossReached(c, currentPrice) ==
    IF isLong(c) THEN LeTol(currentPrice, c.stop_loss)
                 ELSE GeTol(currentPrice, c.stop_loss)

targetEvent(n) ==
    CASE n = 3 -> "target_3" [] n = 2 -> "target_2" [] OTHER -> "target_1"

\* index.ts 388-532: what checkStrategy decides before its first await.
checkStrategy(strategy, c, currentPrice) ==
    LET entered  == entryReached(strategy, c, currentPrice)
        status1  == IF entered THEN "in_position" ELSE strategy.status
        event1   == IF entered THEN "entry_reached" ELSE ""
        inPos    == strategy.status = "in_position" \/ status1 = "in_position"
        hit      == IF inPos THEN newTargetsHit(strategy, c, currentPrice)
                             ELSE strategy.targets_hit
        targeted == hit # strategy.targets_hit
        status2  == IF targeted /\ hit = 3 THEN "completed" ELSE status1
        event2   == IF targeted THEN targetEvent(hit) ELSE event1
        stopped  == /\ strategy.status = "in_position" \/ status2 = "in_position"
                    /\ status2 # "stopped"
                    /\ status2 # "completed"
                    /\ stopLossReached(c, currentPrice)
    IN  [needsUpdate   |-> entered \/ targeted \/ stopped,
         newTargetsHit |-> hit,
         newStatus     |-> IF stopped THEN "stopped" ELSE status2,
         eventType     |-> IF stopped THEN "stop_loss" ELSE event2]

\* The strategy object a suspended call holds is the one in the map until a
\* reload replaces the map's objects (stale) or a splice removes it.
UpdateLocalCopy(list, t, withState) ==
    [i \in 1..Len(list) |->
        IF list[i].id = t.id /\ ~t.stale
        THEN IF withState
             THEN [list[i] EXCEPT !.targets_hit = t.targets_hit,
                                  !.status = t.status,
                                  !.current_price = t.price]
             ELSE [list[i] EXCEPT !.current_price = t.price]
        ELSE list[i]]

RemoveById(list, id) == SelectSeq(list, LAMBDA s : s.id # id)

\* A variant that rolls the local copy back to what the call read.
AfterUpdate_rollback(list, t) ==
    [i \in 1..Len(list) |->
        IF list[i].id = t.id
        THEN [list[i] EXCEPT !.targets_hit = t.seen.targets_hit,
                             !.status = t.seen.status]
        ELSE list[i]]

\* index.ts 540-557: after updateStrategy returns, whatever it did.
AfterUpdate(list, t) ==
    LET local == UpdateLocalCopy(list, t, TRUE)
    IN  IF t.status \in {"completed", "stopped"}
        THEN RemoveById(local, t.id)
        ELSE local

\* A variant that also announces the entry a waiting strategy skipped.
Notified_bothEvents(t) ==
    {[tick |-> t.tick, id |-> t.id, eventType |-> t.eventType]}
    \cup IF t.seen.status = "waiting_entry" /\ t.eventType # "entry_reached"
         THEN {[tick |-> t.tick, id |-> t.id, eventType |-> "entry_reached"]}
         ELSE {}

\* index.ts 591-593 / part_002 682-684: the one notification of a call.
Notified(t) == {[tick |-> t.tick, id |-> t.id, eventType |-> t.eventType]}

NewTask(strategy, currentPrice, d) ==
    [tick |-> tick + 1, id |-> strategy.id,
     pc |-> IF d.needsUpdate THEN "update" ELSE "silent",
     targets_hit |-> d.newTargetsHit, status |-> d.newStatus,
     price |-> currentPrice, eventType |-> d.eventType, stale |-> FALSE,
     seen |-> [status |-> strategy.status, targets_hit |-> strategy.targets_hit]]

UpdateRecord(t) ==
    [tick |-> t.tick, id |-> t.id, targets_hit |-> t.targets_hit,
     status |-> t.status, eventType |-> t.eventType, price |-> t.price,
     seen |-> t.seen]

\* index.ts 379-386: checkPrice calls checkStrategy for every strategy of the
\* symbol without awaiting it; each call runs to its first await, where its
\* update request has been issued.
checkPrice(symbol, currentPrice) ==
    /\ build = "v1.2.0"
    /\ tick < MaxTicks
    /\ LET strategies == activeStrategies[symbol]
           started == {NewTask(strategies[i], currentPrice,
                           checkStrategy(strategies[i], cfg[strategies[i].id],
                                         currentPrice)) :
                       i \in 1..Len(strategies)}
       IN  /\ Len(strategies) > 0
           /\ Cardinality(tasks) + Len(strategies) <= MaxPending
           /\ tasks' = tasks \cup started
           /\ updates' = updates \cup
                  {UpdateRecord(t) : t \in {u \in started : u.pc = "update"}}
    /\ tick' = tick + 1
    /\ UNCHANGED <<others, cfg, store, activeStrategies, reload, notifications, zeroRows>>

\* index.ts 565-598: the awaited update of updateStrategy resolves.
\* .eq('id', strategyId).select() returns the rows it changed: none when the
\* row is gone.  An error, or no row, returns without a notification and
\* checkStrategy goes on (540-557).
updateStrategy(t, failed) ==
    /\ build = "v1.2.0"
    /\ t \in tasks
    /\ t.pc = "update"
    /\ LET found == ~failed /\ RowExists(t.id)
           sym == cfg[t.id].symbol
       IN  /\ store' = IF found
                       THEN [store EXCEPT ![t.id] =
                               [status |-> t.status,
                                targets_hit |-> t.targets_hit,
                                current_price |-> t.price]]
                       ELSE store
           /\ IF found /\ t.eventType # ""
              THEN /\ notifications' = notifications \cup Notified(t)
                   /\ tasks' = (tasks \ {t}) \cup {[t EXCEPT !.pc = "notify"]}
                   /\ UNCHANGED activeStrategies
              ELSE /\ tasks' = tasks \ {t}
                   /\ activeStrategies' =
                        [activeStrategies EXCEPT
                           ![sym] = AfterUpdate(activeStrategies[sym], t)]
                   /\ UNCHANGED notifications
    /\ zeroRows' = IF ~failed /\ ~RowExists(t.id) THEN zeroRows \cup {t.id} ELSE zeroRows
    /\ UNCHANGED <<others, cfg, reload, tick, updates>>

\* index.ts 600-640: the fetch of notifyStrategyEvent resolves, ok or not;
\* either way it only logs, updateStrategy returns and checkStrategy goes on.
notifyStrategyEvent(t) ==
    /\ build = "v1.2.0"
    /\ t \in tasks
    /\ t.pc = "notify"
    /\ tasks' = tasks \ {t}
    /\ activeStrategies' =
         [activeStrategies EXCEPT
            ![cfg[t.id].symbol] = AfterUpdate(activeStrategies[cfg[t.id].symbol], t)]
    /\ UNCHANGED <<others, cfg, store, reload, tick, updates, notifications, zeroRows>>

\* index.ts 558-562, 642-654: the silent update of a tick that changed nothing.
updateCurrentPrice(t) ==
    /\ build = "v1.2.0"
    /\ t \in tasks
    /\ t.pc = "silent"
    /\ store' = IF RowExists(t.id)
                THEN [store EXCEPT ![t.id].current_price = t.price]
                ELSE store
    /\ tasks' = tasks \ {t}
    /\ activeStrategies' =
         [activeStrategies EXCEPT
            ![cfg[t.id].symbol] =
                UpdateLocalCopy(activeStrategies[cfg[t.id].symbol], t, FALSE)]
    /\ UNCHANGED <<others, cfg, reload, tick, updates, notifications, zeroRows>>

\* ------------------------------------------------------------ reload
ActiveStatuses == {"waiting_entry", "in_position"}

Idle == [pending |-> FALSE, rows |-> <<>>]

\* A variant of the query without the filter on status.
SelectActive_all ==
    LET ids == SelectSeq(StrategyOrder, LAMBDA id : RowExists(id))
    IN  [i \in 1..Len(ids) |->
            [id |-> ids[i], status |-> store[ids[i]].status,
             targets_hit |-> store[ids[i]].targets_hit,
             current_price |-> store[ids[i]].current_price]]

\* .from('active_strategies').select('*').in('status', [...]): the rows the
\* query reads, in table order.
SelectActive ==
    LET ids == SelectSeq(StrategyOrder, LAMBDA id : store[id].status \in ActiveStatuses)
    IN  [i \in 1..Len(ids) |->
            [id |-> ids[i], status |-> store[ids[i]].status,
             targets_hit |-> store[ids[i]].targets_hit,
             current_price |-> store[ids[i]].current_price]]

GroupBySymbol(rows) ==
    [sym \in Symbols |-> SelectSeq(rows, LAMBDA r : cfg[r.id].symbol = sym)]

\* index.ts 327-341 / part_002 571-576: the reload timer fires and the
\* select reads the table.
loadActiveStrategies ==
    /\ ~reload.pending
    /\ reload' = [pending |-> TRUE, rows |-> SelectActive]
    /\ UNCHANGED <<others, cfg, store, activeStrategies, tasks, tick, updates,
                   notifications, zeroRows>>

\* index.ts 348-373 / part_002 583-591: the select resolves with rows and the
\* map is replaced by new objects.
loadActiveStrategiesDone ==
    /\ reload.pending
    /\ activeStrategies' = GroupBySymbol(reload.rows)
    /\ tasks' = {[t EXCEPT !.stale = TRUE] : t \in tasks}
    /\ reload' = Idle
    /\ zeroRows' = {}
    /\ UNCHANGED <<others, cfg, store, tick, updates, notifications>>

\* A variant that empties the map before it looks at the error.
loadActiveStrategiesError_clearing ==
    /\ reload.pending
    /\ reload' = Idle
    /\ activeStrategies' = [sym \in Symbols |-> <<>>]
    /\ UNCHANGED <<others, cfg, store, tasks, tick, updates, notifications,
                   zeroRows>>

\* index.ts 343-346, 374-376 / part_002 578-581, 598-600: the select resolves
\* with an error; the map is as it was.
loadActiveStrategiesError ==
    /\ reload.pending
    /\ reload' = Idle
    /\ UNCHANGED <<others, cfg, store, activeStrategies, tasks, tick, updates,
                   notifications, zeroRows>>

\* ------------------------------------------------- the store's other writers
\* The dashboard pauses a strategy (status 'paused', index.ts 30).
ExternalPause(id) ==
    /\ store[id].status \in ActiveStatuses
    /\ store' = [store EXCEPT ![id].status = "paused"]
    /\ UNCHANGED <<others, cfg, activeStrategies, reload, tasks, tick, updates,
                   notifications, zeroRows>>

\* The row is deleted: a later update by id changes no row (index.ts 583).
ExternalDelete(id) ==
    /\ RowExists(id)
    /\ store' = [store EXCEPT ![id] = NoRow]
    /\ UNCHANGED <<others, cfg, activeStrategies, reload, tasks, tick, updates,
                   notifications, zeroRows>>

\* ------------------------------------------- v3.2.0: PositionMonitor
TargetNames == {"target_1", "target_2", "target_3"}

\* part_002 623-643: the targets not yet in targets_hit that the price
\* reaches; the loop runs T3, T2, T1 and has no break.
newlyHit(strategy, c, currentPrice) ==
    {n \in TargetNames \ strategy.targets_hit :
        targetReached(c, currentPrice,
                      CASE n = "target_3" -> c.target_3
                        [] n = "target_2" -> c.target_2
                        [] OTHER -> c.target_1)}

\* eventType is assigned at every hit of the loop, so it ends as the last
\* one assigned in the order T3, T2, T1.
lastAssigned(hits) ==
    IF "target_1" \in hits THEN "target_1"
    ELSE IF "target_2" \in hits THEN "target_2"
    ELSE IF "target_3" \in hits THEN "target_3"
    ELSE ""

\* part_002 617-661, 692-695: what checkStrategy decides before its await.
checkStrategyV3(strategy, c, currentPrice) ==
    LET hits      == newlyHit(strategy, c, currentPrice)
        stop      == /\ stopLossReached(c, currentPrice)
                     /\ "stop_loss" \notin (strategy.targets_hit \cup hits)
        targetsHit == strategy.targets_hit \cup hits \cup
                      (IF stop THEN {"stop_loss"} ELSE {})
        lastPrice == strategy.current_price
    IN  [hasUpdate |-> hits # {} \/ stop,
         targetsHit |-> targetsHit,
         newStatus |-> IF "target_3" \in targetsHit \/ "stop_loss" \in targetsHit
                       THEN "completed" ELSE "in_position",
         eventType |-> IF stop THEN "stop_loss" ELSE lastAssigned(hits),
         silent |-> IF lastPrice = 0 THEN currentPrice # 0
                    ELSE Abs(currentPrice - lastPrice) * EPSILON_DEN
                           > EPSILON_NUM * Abs(lastPrice)]

\* part_002 612-614: for (strategy of strategies) await checkStrategy(...).
\* The loop runs on until a checkStrategy call has to await a request; the
\* strategies after it wait in queue.
RECURSIVE LoopV3(_, _, _)
LoopV3(queue, currentPrice, n) ==
    IF queue = <<>> THEN {}
    ELSE LET strategy == Head(queue)
             d == checkStrategyV3(strategy, cfg[strategy.id], currentPrice)
         IN  IF d.hasUpdate \/ d.silent
             THEN {[tick |-> n, id |-> strategy.id,
                    pc |-> IF d.hasUpdate THEN "update" ELSE "silent",
                    targets_hit |-> d.targetsHit, status |-> d.newStatus,
                    price |-> currentPrice, eventType |-> d.eventType,
                    stale |-> FALSE,
                    seen |-> [status |-> strategy.status,
                              targets_hit |-> strategy.targets_hit],
                    queue |-> Tail(queue)]}
             ELSE LoopV3(Tail(queue), currentPrice, n)

IssuedBy(started) == {UpdateRecord(t) : t \in {u \in started : u.pc = "update"}}

\* part_002 606-615
checkPriceV3(symbol, currentPrice) ==
    /\ build = "v3.2.0"
    /\ tick < MaxTicks
    /\ LET strategies == activeStrategies[symbol]
           started == LoopV3(strategies, currentPrice, tick + 1)
       IN  /\ Len(strategies) > 0
           /\ Cardinality(tasks) < MaxPending
           /\ tasks' = tasks \cup started
           /\ updates' = updates \cup IssuedBy(started)
    /\ tick' = tick + 1
    /\ UNCHANGED <<others, cfg, store, activeStrategies, reload, notifications, zeroRows>>

\* part_002 663-688: the awaited update resolves.  .single() makes an update
\* that changed no row an error; an error returns without a notification.
updateStrategyV3(t, failed) ==
    /\ build = "v3.2.0"
    /\ t \in tasks
    /\ t.pc = "update"
    /\ LET found == ~failed /\ RowExists(t.id)
           next == LoopV3(t.queue, t.price, t.tick)
       IN  /\ store' = IF found
                       THEN [store EXCEPT ![t.id] =
                               [status |-> t.status,
                                targets_hit |-> t.targets_hit,
                                current_price |-> t.price]]
                       ELSE store
           /\ IF found /\ t.eventType # ""
              THEN /\ notifications' = notifications \cup Notified(t)
                   /\ tasks' = (tasks \ {t}) \cup {[t EXCEPT !.pc = "notify"]}
                   /\ UNCHANGED updates
              ELSE /\ tasks' = (tasks \ {t}) \cup next
                   /\ updates' = updates \cup IssuedBy(next)
                   /\ UNCHANGED notifications
    /\ zeroRows' = IF ~failed /\ ~RowExists(t.id) THEN zeroRows \cup {t.id} ELSE zeroRows
    /\ UNCHANGED <<others, cfg, activeStrategies, reload, tick>>

\* part_002 707-745: the fetch resolves, ok or not; the loop goes on.
sendNotification(t) ==
    /\ build = "v3.2.0"
    /\ t \in tasks
    /\ t.pc = "notify"
    /\ LET next == LoopV3(t.queue, t.price, t.tick)
       IN  /\ tasks' = (tasks \ {t}) \cup next
           /\ updates' = updates \cup IssuedBy(next)
    /\ UNCHANGED <<others, cfg, store, activeStrategies, reload, tick,
                   notifications, zeroRows>>

\* part_002 689-704: the silent update resolves; its result is not read.
silentUpdateV3(t) ==
    /\ build = "v3.2.0"
    /\ t \in tasks
    /\ t.pc = "silent"
    /\ store' = IF RowExists(t.id)
                THEN [store EXCEPT ![t.id].current_price = t.price]
                ELSE store
    /\ LET next == LoopV3(t.queue, t.price, t.tick)
       IN  /\ tasks' = (tasks \ {t}) \cup next
           /\ updates' = updates \cup IssuedBy(next)
    /\ UNCHANGED <<others, cfg, activeStrategies, reload, tick, notifications, zeroRows>>

\* ====================================================== trigger detector
\* The key `${symbol}-${type}` of recentTriggers.
Keys == Symbols \X TriggerTypes

\* ---- BaselineTracker (part_002 110-150, index.ts 104-138)
\* A tracker is the record [baselines, lastUpdate].
\* A variant that seeds the baseline with 0.
initialize_zero(b, symbol, volume) ==
    IF b.baselines[symbol] = Absent
    THEN [baselines |-> [b.baselines EXCEPT ![symbol] = 0],
          lastUpdate |-> [b.lastUpdate EXCEPT ![symbol] = now]]
    ELSE b

\* A variant that seeds anew on every call.
initialize_overwriting(b, symbol, volume) ==
    [baselines |-> [b.baselines EXCEPT ![symbol] = volume * BASELINE_DEN],
     lastUpdate |-> [b.lastUpdate EXCEPT ![symbol] = now]]

\* part_002 114-120, index.ts 109-115.
initialize(b, symbol, volume) ==
    IF b.baselines[symbol] = Absent
    THEN [baselines |-> [b.baselines EXCEPT ![symbol] = volume * BASELINE_DEN],
          lastUpdate |-> [b.lastUpdate EXCEPT ![symbol] = now]]
    ELSE b

\* part_002 125 compares with >=, index.ts 121 with >; a missing time reads
\* as 0, an hour and more ago.
updateDue(lastUpdateTime) ==
    \/ lastUpdateTime = Absent
    \/ IF build = "v3.2.0"
       THEN now - lastUpdateTime >= VOLUME_BASELINE_UPDATE
       ELSE now - lastUpdateTime > VOLUME_BASELINE_UPDATE

\* A variant that drops a baseline that is due, to be seeded anew.
update_expiring(b, symbol, currentVolume) ==
    IF updateDue(b.lastUpdate[symbol])
    THEN [baselines |-> [b.baselines EXCEPT ![symbol] = Absent],
          lastUpdate |-> [b.lastUpdate EXCEPT ![symbol] = Absent]]
    ELSE b

\* A variant that weighs the old baseline 0.2 and the volume 0.8.
update_swapped(b, symbol, currentVolume) ==
    LET oldBaseline == IF b.baselines[symbol] \in {Absent, 0}
                       THEN currentVolume * BASELINE_DEN
                       ELSE b.baselines[symbol]
        newBaseline == (oldBaseline * 2 + currentVolume * BASELINE_DEN * 8) \div 10
    IN  IF updateDue(b.lastUpdate[symbol])
        THEN [baselines |-> [b.baselines EXCEPT ![symbol] = newBaseline],
              lastUpdate |-> [b.lastUpdate EXCEPT ![symbol] = now]]
        ELSE b

\* part_002 122-132, index.ts 117-128.
update(b, symbol, currentVolume) ==
    LET oldBaseline == IF b.baselines[symbol] \in {Absent, 0}
                       THEN currentVolume * BASELINE_DEN
                       ELSE b.baselines[symbol]
        newBaseline == (oldBaseline * 8 + currentVolume * BASELINE_DEN * 2) \div 10
    IN  IF updateDue(b.lastUpdate[symbol])
        THEN [baselines |-> [b.baselines EXCEPT ![symbol] = newBaseline],
              lastUpdate |-> [b.lastUpdate EXCEPT ![symbol] = now]]
        ELSE b

\* part_002 134-140: no baseline, no spike.  index.ts 197-202 divides by
\* `get(symbol)`, which is 0 for a missing baseline: the ratio is Infinity for
\* a positive volume and NaN for volume 0.
isSpike(b, symbol, currentVolume) ==
    LET baseline == b.baselines[symbol]
    IN  IF baseline \in {Absent, 0}
        THEN build = "v1.2.0" /\ currentVolume > 0
        ELSE currentVolume * BASELINE_DEN * 100 > VOLUME_SPIKE_THRESHOLD_PCT * baseline

\* ---- PriceHistoryTracker (part_002 156-196, index.ts 144-175)
\* part_002 176 keeps timestamp > cutoff, index.ts 160 keeps
\* now - timestamp <= WINDOW.
inWindow(p) ==
    IF build = "v3.2.0"
    THEN p.timestamp > now - PRICE_WINDOW
    ELSE now - p.timestamp <= PRICE_WINDOW

\* A variant that appends and prunes nothing.
add_unpruned(h, symbol, price) ==
    [h EXCEPT ![symbol] = Append(h[symbol], [price |-> price, timestamp |-> now])]

\* part_002 159-178, index.ts 148-162.
add(h, symbol, price) ==
    [h EXCEPT ![symbol] =
        SelectSeq(Append(h[symbol], [price |-> price, timestamp |-> now]), inWindow)]

\* part_002 180-186, index.ts 164-170: the change in percent, as the fraction
\* num / den.
getChange(h, symbol, currentPrice) ==
    IF h[symbol] = <<>>
    THEN [num |-> 0, den |-> 1]
    ELSE LET oldestPrice == h[symbol][1].price
         IN  [num |-> (currentPrice - oldestPrice) * 100, den |-> oldestPrice]

\* part_002 188-191, index.ts 218-222: |getChange| >= 0.5 percent.
isTrigger(h, symbol, currentPrice) ==
    LET change == getChange(h, symbol, currentPrice)
    IN  Abs(change.num) * 10 >= PRICE_MOVE_THRESHOLD_PERMILLE * change.den

\* ---- CircuitBreaker (part_002 202-383)
in15m(p) == p.timestamp > now - CIRCUIT_BREAKER_WINDOW

\* A variant that needs more than the threshold.
flashCrash_strict(price, oldestPrice) ==
    Abs(price - oldestPrice) * 100 > CIRCUIT_BREAKER_THRESHOLD_PCT * oldestPrice

\* part_002 245: Math.abs(priceChange) >= CIRCUIT_BREAKER_THRESHOLD
flashCrash(price, oldestPrice) ==
    Abs(price - oldestPrice) * 100 >= CIRCUIT_BREAKER_THRESHOLD_PCT * oldestPrice

\* A variant that looks for a flash crash before it looks for the breaker,
\* and so activates anew during a block.
addPrice_rearming(cb, symbol, price) ==
    LET filtered == SelectSeq(Append(cb.priceHistory15m[symbol],
                                     [price |-> price, timestamp |-> now]), in15m)
        points == [cb.priceHistory15m EXCEPT ![symbol] = filtered]
        activeBreaker == cb.activeBreakers[symbol]
        oldestPrice == filtered[1].price
        direction == IF price > oldestPrice THEN "UP" ELSE "DOWN"
    IN  IF Len(filtered) >= 2 /\ flashCrash(price, oldestPrice)
        THEN [priceHistory15m |-> points,
              activeBreakers |->
                  [cb.activeBreakers EXCEPT ![symbol] =
                      [active |-> TRUE, activatedAt |-> now,
                       expiresAt |-> now + CIRCUIT_BREAKER_COOLDOWN,
                       reason |-> direction]],
              shouldBlock |-> TRUE, reason |-> direction]
        ELSE IF activeBreaker.active /\ now < activeBreaker.expiresAt
        THEN [priceHistory15m |-> points, activeBreakers |-> cb.activeBreakers,
              shouldBlock |-> TRUE, reason |-> "ACTIVE"]
        ELSE [priceHistory15m |-> points,
              activeBreakers |-> [cb.activeBreakers EXCEPT ![symbol] = NoBreaker],
              shouldBlock |-> FALSE, reason |-> ""]

\* A breaker is the record [priceHistory15m, activeBreakers]; the result adds
\* what addPrice returns.  The reason is "ACTIVE" for `Circuit breaker active
\* until ...` and the direction for `Flash UP/DOWN: ...`.
addPrice(cb, symbol, price) ==
    LET filtered == SelectSeq(Append(cb.priceHistory15m[symbol],
                                     [price |-> price, timestamp |-> now]), in15m)
        points == [cb.priceHistory15m EXCEPT ![symbol] = filtered]
        activeBreaker == cb.activeBreakers[symbol]
        expired == [cb.activeBreakers EXCEPT ![symbol] = NoBreaker]
        oldestPrice == filtered[1].price
        direction == IF price > oldestPrice THEN "UP" ELSE "DOWN"
    IN  IF activeBreaker.active /\ now < activeBreaker.expiresAt
        THEN [priceHistory15m |-> points, activeBreakers |-> cb.activeBreakers,
              shouldBlock |-> TRUE, reason |-> "ACTIVE"]
        ELSE IF Len(filtered) >= 2 /\ flashCrash(price, oldestPrice)
        THEN [priceHistory15m |-> points,
              activeBreakers |->
                  [cb.activeBreakers EXCEPT ![symbol] =
                      [active |-> TRUE, activatedAt |-> now,
                       expiresAt |-> now + CIRCUIT_BREAKER_COOLDOWN,
                       reason |-> direction]],
              shouldBlock |-> TRUE, reason |-> direction]
        ELSE [priceHistory15m |-> points, activeBreakers |-> expired,
              shouldBlock |-> FALSE, reason |-> ""]

\* A variant without the second gate.
isBlocked_never(breakers, symbol) == FALSE

\* part_002 276-286
isBlocked(breakers, symbol) ==
    breakers[symbol].active /\ now < breakers[symbol].expiresAt

\* part_002 280-283: isBlocked removes the breaker it finds expired.
afterIsBlocked(breakers, symbol) ==
    IF breakers[symbol].active /\ now >= breakers[symbol].expiresAt
    THEN [breakers EXCEPT ![symbol] = NoBreaker]
    ELSE breakers

\* ---- TriggerDetector (part_002 389-534, index.ts 181-284)
\* A variant whose cooldown does not end.
inCooldown_forever(recent, key) == recent[key] # Absent

\* A variant that finds no key in cooldown.
inCooldown_never(recent, key) == FALSE

inCooldown(recent, key) ==
    recent[key] # Absent /\ now - recent[key] < TRIGGER_COOLDOWN

\* A variant that leaves the recording to the end of the insert.
recordTrigger_late(recent, key) == recent

\* part_002 491, index.ts 246: recorded before the insert is awaited.
recordTrigger(recent, key) == [recent EXCEPT ![key] = now]

\* A variant that keeps one cooldown per symbol, whatever the kind.
createTrigger_perSymbol(d, symbol, type) ==
    IF \E k \in TriggerTypes : inCooldown(d.recentTriggers, <<symbol, k>>)
    THEN [outcome |-> "cooldown", recentTriggers |-> d.recentTriggers,
          activeBreakers |-> d.activeBreakers]
    ELSE [outcome |-> "insert",
          recentTriggers |-> recordTrigger(d.recentTriggers, <<symbol, type>>),
          activeBreakers |-> d.activeBreakers]

\* createTrigger up to its await.  d is [recentTriggers, activeBreakers]; the
\* outcome is "cooldown", "blocked" or "insert".  index.ts has no breaker.
createTrigger(d, symbol, type) ==
    IF inCooldown(d.recentTriggers, <<symbol, type>>)
    THEN [outcome |-> "cooldown", recentTriggers |-> d.recentTriggers,
          activeBreakers |-> d.activeBreakers]
    ELSE IF build = "v3.2.0" /\ isBlocked(d.activeBreakers, symbol)
    THEN [outcome |-> "blocked", recentTriggers |-> d.recentTriggers,
          activeBreakers |-> d.activeBreakers]
    ELSE [outcome |-> "insert",
          recentTriggers |-> recordTrigger(d.recentTriggers, <<symbol, type>>),
          activeBreakers |-> IF build = "v3.2.0"
                             THEN afterIsBlocked(d.activeBreakers, symbol)
                             ELSE d.activeBreakers]

NotCalled(d) ==
    [outcome |-> "none", recentTriggers |-> d.recentTriggers,
     activeBreakers |-> d.activeBreakers]

Insert(n, symbol, price, type) ==
    [tick |-> n, symbol |-> symbol, price |-> price, type |-> type]

Write(n, type) ==
    [tick |-> n, type |-> type, at |-> now, epoch |-> epoch,
     after |-> Len(tickers)]

\* What one createTrigger call adds to the state, as the sets it extends.
Effects(r, n, symbol, price, type) ==
    [recentTriggers |-> r.recentTriggers,
     activeBreakers |-> r.activeBreakers,
     inserts |-> IF r.outcome = "insert" THEN {Insert(n, symbol, price, type)} ELSE {},
     writes |-> IF r.outcome = "insert" THEN {Write(n, type)} ELSE {},
     gated |-> IF r.outcome = "blocked"
               THEN {[tick |-> n, type |-> type, at |-> now]} ELSE {}]

\* part_002 460-467, index.ts 217-227: the price check and its createTrigger.
priceStep(h, d, n, symbol, price) ==
    Effects(IF isTrigger(h, symbol, price)
            THEN createTrigger(d, symbol, "price_move")
            ELSE NotCalled(d),
            n, symbol, price, "price_move")

\* part_002 450-458, index.ts 196-208: the volume check and its createTrigger.
volumeStep(b, d, n, symbol, price, volume) ==
    Effects(IF isSpike(b, symbol, volume)
            THEN createTrigger(d, symbol, "volume_spike")
            ELSE NotCalled(d),
            n, symbol, price, "volume_spike")

\* part_002 450-467: a volume insert suspends processTicker before its price
\* check; otherwise the price check follows at once.
detect(b, h, d, n, symbol, price, volume) ==
    LET v == volumeStep(b, d, n, symbol, price, volume)
        p == priceStep(h, [recentTriggers |-> v.recentTriggers,
                           activeBreakers |-> v.activeBreakers],
                       n, symbol, price)
    IN  IF v.inserts # {}
        THEN v
        ELSE [p EXCEPT !.gated = v.gated \cup p.gated]

Observed(n, symbol, price, volume, b, h, c) ==
    [symbol |-> symbol, price |-> price, volume |-> volume, at |-> now,
     epoch |-> epoch, baseline |-> b.baselines[symbol],
     oldest |-> h[symbol][1].price,
     oldest15 |-> c.priceHistory15m[symbol][1].price,
     points15 |-> Len(c.priceHistory15m[symbol]),
     shouldBlock |-> c.shouldBlock, reason |-> c.reason]

Commit(b, h, c, e, entry) ==
    /\ baselines' = b.baselines
    /\ lastUpdate' = b.lastUpdate
    /\ history' = h
    /\ priceHistory15m' = c.priceHistory15m
    /\ activeBreakers' = e.activeBreakers
    /\ recentTriggers' = e.recentTriggers
    /\ inserts' = inserts \cup e.inserts
    /\ triggerWrites' = triggerWrites \cup e.writes
    /\ gated' = gated \cup e.gated
    /\ tickers' = Append(tickers, entry)

Skipped(c) ==
    [recentTriggers |-> recentTriggers, activeBreakers |-> c.activeBreakers,
     inserts |-> {}, writes |-> {}, gated |-> {}]

\* A variant that consults the breaker first and, blocked, returns before
\* the baseline and the 5-minute window are touched.
processTickerSteps_blockFirst(symbol, price, volume) ==
    LET n == Len(tickers) + 1
        c == addPrice([priceHistory15m |-> priceHistory15m,
                       activeBreakers |-> activeBreakers], symbol, price)
        b == update(initialize([baselines |-> baselines, lastUpdate |-> lastUpdate],
                               symbol, volume), symbol, volume)
        h == add(history, symbol, price)
    IN  IF c.shouldBlock
        THEN [b |-> [baselines |-> baselines, lastUpdate |-> lastUpdate],
              h |-> [history EXCEPT ![symbol] =
                        IF @ = <<>> THEN <<[price |-> price, timestamp |-> now]>> ELSE @],
              c |-> c, e |-> Skipped(c)]
        ELSE [b |-> b, h |-> h, c |-> c,
              e |-> detect(b, h, [recentTriggers |-> recentTriggers,
                                  activeBreakers |-> c.activeBreakers],
                           n, symbol, price, volume)]

\* A variant that runs the detection before it consults the breaker.
processTickerSteps_detectFirst(symbol, price, volume) ==
    LET n == Len(tickers) + 1
        b == update(initialize([baselines |-> baselines, lastUpdate |-> lastUpdate],
                               symbol, volume), symbol, volume)
        h == add(history, symbol, price)
        e == detect(b, h, [recentTriggers |-> recentTriggers,
                           activeBreakers |-> activeBreakers],
                    n, symbol, price, volume)
        c == addPrice([priceHistory15m |-> priceHistory15m,
                       activeBreakers |-> e.activeBreakers], symbol, price)
    IN  [b |-> b, h |-> h, c |-> c,
         e |-> [e EXCEPT !.activeBreakers = c.activeBreakers]]

\* part_002 429-468, up to the first await.
processTickerSteps(symbol, price, volume) ==
    LET n == Len(tickers) + 1
        b == update(initialize([baselines |-> baselines, lastUpdate |-> lastUpdate],
                               symbol, volume), symbol, volume)
        h == add(history, symbol, price)
        c == addPrice([priceHistory15m |-> priceHistory15m,
                       activeBreakers |-> activeBreakers], symbol, price)
    IN  [b |-> b, h |-> h, c |-> c,
         e |-> IF c.shouldBlock
               THEN Skipped(c)
               ELSE detect(b, h, [recentTriggers |-> recentTriggers,
                                  activeBreakers |-> c.activeBreakers],
                           n, symbol, price, volume)]

processTicker(symbol, price, volume) ==
    /\ build = "v3.2.0"
    /\ Len(tickers) < MaxTickers
    /\ LET s == processTickerSteps(symbol, price, volume)
       IN  Commit(s.b, s.h, s.c, s.e,
                  Observed(Len(tickers) + 1, symbol, price, volume, s.b, s.h, s.c))
    /\ UNCHANGED <<build, posVars, monVars, now, triggers, errors, epoch>>

\* index.ts 906-907: checkVolumeTrigger and checkPriceTrigger are both called
\* without await, so both run to their own insert in the same turn.
handleMessage(symbol, price, volume) ==
    /\ build = "v1.2.0"
    /\ Len(tickers) < MaxTickers
    /\ LET n == Len(tickers) + 1
           b == update(initialize([baselines |-> baselines, lastUpdate |-> lastUpdate],
                                  symbol, volume), symbol, volume)
           d == [recentTriggers |-> recentTriggers, activeBreakers |-> activeBreakers]
           v == volumeStep(b, d, n, symbol, price, volume)
           h == add(history, symbol, price)
           p == priceStep(h, [recentTriggers |-> v.recentTriggers,
                              activeBreakers |-> v.activeBreakers],
                          n, symbol, price)
           c == [priceHistory15m |-> priceHistory15m, shouldBlock |-> FALSE,
                 reason |-> ""]
       IN  Commit(b, h, c,
                  [p EXCEPT !.inserts = v.inserts \cup p.inserts,
                            !.writes = v.writes \cup p.writes],
                  [symbol |-> symbol, price |-> price, volume |-> volume,
                   at |-> now, epoch |-> epoch, baseline |-> b.baselines[symbol],
                   oldest |-> h[symbol][1].price, oldest15 |-> price,
                   points15 |-> 0, shouldBlock |-> FALSE, reason |-> ""])
    /\ UNCHANGED <<build, posVars, monVars, now, triggers, errors, epoch>>

\* part_002 495-521, index.ts 252-276: the insert resolves, with an error or
\* with the row.  In part_002 the caller then goes on: after the volume
\* trigger comes the price check of the same ticker (453-467).
createTriggerDone(t, ok) ==
    /\ t \in inserts
    /\ triggers' = IF ok THEN triggers \cup {[tick |-> t.tick, type |-> t.type]}
                   ELSE triggers
    /\ errors' = IF ok THEN errors
                 ELSE errors \cup {[tick |-> t.tick, type |-> t.type]}
    /\ LET e == IF build = "v3.2.0" /\ t.type = "volume_spike"
                THEN priceStep(history,
                               [recentTriggers |-> recentTriggers,
                                activeBreakers |-> activeBreakers],
                               t.tick, t.symbol, t.price)
                ELSE Effects(NotCalled([recentTriggers |-> recentTriggers,
                                        activeBreakers |-> activeBreakers]),
                             t.tick, t.symbol, t.price, t.type)
       IN  /\ inserts' = (inserts \ {t}) \cup e.inserts
           /\ triggerWrites' = triggerWrites \cup e.writes
           /\ gated' = gated \cup e.gated
           /\ recentTriggers' = e.recentTriggers
           /\ activeBreakers' = e.activeBreakers
    /\ UNCHANGED <<build, posVars, monVars, now, baselines, lastUpdate, history,
                   priceHistory15m, tickers, epoch>>

NoKeys == [k \in Keys |-> Absent]
NoTimes == [sym \in Symbols |-> Absent]
NoPoints == [sym \in Symbols |-> <<>>]
NoBreakers == [sym \in Symbols |-> NoBreaker]

Seen ==
    \/ baselines # NoTimes
    \/ history # NoPoints
    \/ priceHistory15m # NoPoints
    \/ recentTriggers # NoKeys

\* part_002 528-533, called by stopMonitoring (861).
clear ==
    /\ build = "v3.2.0"
    /\ Seen
    /\ recentTriggers' = NoKeys
    /\ baselines' = NoTimes
    /\ lastUpdate' = NoTimes
    /\ history' = NoPoints
    /\ priceHistory15m' = NoPoints
    /\ activeBreakers' = NoBreakers
    /\ epoch' = epoch + 1
    /\ UNCHANGED <<build, posVars, monVars, now, inserts, tickers, triggerWrites,
                   triggers, gated, errors>>

\* index.ts 279-283, called by stopMonitoring (841).
reset ==
    /\ build = "v1.2.0"
    /\ Seen
    /\ baselines' = NoTimes
    /\ lastUpdate' = NoTimes
    /\ history' = NoPoints
    /\ recentTriggers' = NoKeys
    /\ epoch' = epoch + 1
    /\ UNCHANGED <<build, posVars, monVars, now, priceHistory15m, activeBreakers,
                   inserts, tickers, triggerWrites, triggers, gated, errors>>

\* Date.now() moves on between two turns of the event loop.
Advance(t) ==
    /\ now < t
    /\ t <= MaxTime
    /\ now' = t
    /\ UNCHANGED <<build, posVars, monVars, baselines, lastUpdate, history,
                   priceHistory15m, activeBreakers, recentTriggers, inserts,
                   tickers, triggerWrites, triggers, gated, errors, epoch>>

InitTrig ==
    /\ now = 0
    /\ baselines = NoTimes
    /\ lastUpdate = NoTimes
    /\ history = NoPoints
    /\ priceHistory15m = NoPoints
    /\ activeBreakers = NoBreakers
    /\ recentTriggers = NoKeys
    /\ inserts = {}
    /\ tickers = <<>>
    /\ triggerWrites = {}
    /\ triggers = {}
    /\ gated = {}
    /\ errors = {}
    /\ epoch = 0

\* ------------------------------------------------------ specification
NoTargets == IF build = "v3.2.0" THEN {} ELSE 0

InitPosOf(rows) ==
    /\ cfg \in [StrategyIds -> rows]
    /\ \E st \in [StrategyIds -> ActiveStatuses] :
         store = [id \in StrategyIds |->
                    [status |-> st[id], targets_hit |-> NoTargets,
                     current_price |-> InitialPrice]]
    /\ activeStrategies = [sym \in Symbols |-> <<>>]
    /\ reload = Idle
    /\ tasks = {}
    /\ tick = 0
    /\ updates = {}
    /\ notifications = {}
    /\ zeroRows = {}

\* ---- BinanceMonitor, as constructed (part_002 761-774, index.ts 662-670)
PairLists == {<<>>, <<"BTCUSDT">>, <<"BTCUSDT", "ETHUSDT">>}

\* index.ts 665-667, 290 (part_002 768-769, 543 name them ...Interval); the
\* delayed restart of index.ts 748 has no field.
TimerKinds == {"statusCheckTimer", "pairCheckTimer", "reloadTimer",
               "reconnectTimer", "restart"}

NoTimers == [k \in TimerKinds |-> 0]

SocketIds == 1..MaxSockets

\* The rows of system_config that hold a threshold (part_002 409); a key
\* without a row reads as NoValue.
ThresholdKeys == {"volume_spike_threshold", "price_move_threshold"}

NoValue == "<no row>"

\* Thresholds are kept in thousandths: part_002 396-397, the defaults of
\* CONFIG (40-41).
DefaultThresholds ==
    [volume_spike_threshold |-> VOLUME_SPIKE_THRESHOLD_PCT * 10,
     price_move_threshold |-> PRICE_MOVE_THRESHOLD_PERMILLE]

InitMon ==
    /\ config = [scanner_status |-> "stopped", monitored_pairs |-> <<>>,
                 up |-> TRUE,
                 thresholds |-> [k \in ThresholdKeys |-> NoValue]]
    /\ monitor = [isMonitoring |-> FALSE, monitoredSymbols |-> <<>>,
                  ws |-> Null, statusCheckTimer |-> FALSE,
                  pairCheckTimer |-> FALSE, reconnectTimer |-> FALSE,
                  isActive |-> FALSE, reloadTimer |-> FALSE,
                  thresholds |-> DefaultThresholds]
    /\ timers = NoTimers
    /\ sockets = [i \in SocketIds |-> "closed"]
    /\ calls = EmptyBag
    /\ process = "new"

InitPos == InitPosOf(StrategyRows)

Init ==
    /\ build \in Builds
    /\ InitPos
    /\ InitTrig
    /\ InitMon

NextPos ==
    \/ \E sym \in Symbols, p \in Prices : checkPrice(sym, p)
    \/ \E t \in tasks, failed \in BOOLEAN : updateStrategy(t, failed)
    \/ \E t \in tasks : notifyStrategyEvent(t)
    \/ \E t \in tasks : updateCurrentPrice(t)
    \/ \E sym \in Symbols, p \in Prices : checkPriceV3(sym, p)
    \/ \E t \in tasks, failed \in BOOLEAN : updateStrategyV3(t, failed)
    \/ \E t \in tasks : sendNotification(t)
    \/ \E t \in tasks : silentUpdateV3(t)
    \/ loadActiveStrategies
    \/ loadActiveStrategiesDone
    \/ loadActiveStrategiesError
    \/ \E id \in StrategyIds : ExternalPause(id)
    \/ \E id \in StrategyIds : ExternalDelete(id)

SpecPos == Init /\ [][NextPos]_vars

NextTrig ==
    \/ \E sym \in Symbols, p \in TickerPrices, v \in TickerVolumes :
          processTicker(sym, p, v)
    \/ \E sym \in Symbols, p \in TickerPrices, v \in TickerVolumes :
          handleMessage(sym, p, v)
    \/ \E t \in inserts, ok \in BOOLEAN : createTriggerDone(t, ok)
    \/ clear
    \/ reset
    \/ \E t \in Instants : Advance(t)

\* The detector does not read the strategies: one set of them is enough.
InitDetector ==
    /\ Init
    /\ cfg = [id \in StrategyIds |-> LongStrategy]
    /\ \A id \in StrategyIds : store[id].status = "in_position"

SpecTrig == InitDetector /\ [][NextTrig]_vars

\* ======================================================== claims
TargetsCount(th) ==
    IF build = "v3.2.0" THEN Cardinality(th \cap TargetNames) ELSE th

NotLess(old, new) ==
    IF build = "v3.2.0" THEN old \subseteq new ELSE old <= new

EventTypes == {"entry_reached", "target_1", "target_2", "target_3", "stop_loss"}

\* The tick of an update record is a target jump: a LONG strategy seen
\* in_position with no target recorded, at a price >= target_3*(1-EPSILON).
IsTargetJump(u) ==
    /\ cfg[u.id].position_type = "LONG"
    /\ u.seen.status = "in_position"
    /\ u.seen.targets_hit = NoTargets
    /\ u.price * EPSILON_DEN >= cfg[u.id].target_3 * (EPSILON_DEN - EPSILON_NUM)

\* C1: a tick that is a target jump (LONG, in_position, targetsHit = 0,
\* price >= target3*(1-epsilon)) issues one update with targetsHit = 3 and
\* status completed, and the only event of that tick is target_3.
C1_TargetJump ==
    [][/\ \A t \in tasks' :
            (t.tick = tick' /\ tick' = tick + 1 /\ IsTargetJump(t))
            => /\ t.pc = "update"
               /\ t.status = "completed"
               /\ TargetsCount(t.targets_hit) = 3
               /\ t.eventType = "target_3"
       /\ \A n \in notifications', u \in updates' :
            (n.tick = u.tick /\ n.id = u.id /\ IsTargetJump(u))
            => n.eventType = "target_3"]_vars

\* C1 restricted to the build of src/src/index.ts.
C1_TargetJump_v1 ==
    [][build = "v1.2.0" =>
       /\ \A t \in tasks' :
            (t.tick = tick' /\ tick' = tick + 1 /\ IsTargetJump(t))
            => /\ t.pc = "update"
               /\ t.status = "completed"
               /\ t.targets_hit = 3
               /\ t.eventType = "target_3"
       /\ \A n \in notifications', u \in updates' :
            (n.tick = u.tick /\ n.id = u.id /\ IsTargetJump(u))
            => n.eventType = "target_3"]_vars

\* C2: the targetsHit recorded in memory and the targetsHit written to the
\* store never decrease, for any strategy, in any step.
C2_TargetsHitNeverDecreases ==
    [][/\ \A id \in StrategyIds :
            (store[id].status # "absent" /\ store'[id].status # "absent")
            => NotLess(store[id].targets_hit, store'[id].targets_hit)
       /\ \A sym \in Symbols :
            \A i \in 1..Len(activeStrategies[sym]),
               j \in 1..Len(activeStrategies'[sym]) :
               activeStrategies[sym][i].id = activeStrategies'[sym][j].id
               => NotLess(activeStrategies[sym][i].targets_hit,
                          activeStrategies'[sym][j].targets_hit)]_vars

StatusDag ==
    {<<"waiting_entry", "in_position">>,
     <<"in_position", "completed">>,
     <<"in_position", "stopped">>}

\* C3: every status change the tracker makes in the store is an edge of
\* waiting_entry -> in_position -> {completed, stopped}.
C3_StatusDag ==
    [][tasks' # tasks =>
        \A id \in StrategyIds :
            \/ store'[id].status = store[id].status
            \/ <<store[id].status, store'[id].status>> \in StatusDag]_vars

\* C4: a strategy gets at most one update and at most one event per tick,
\* of one of the event classes entry, target, stop-loss.
C4_OneEventPerTick ==
    /\ \A a, b \in notifications : (a.tick = b.tick /\ a.id = b.id) => a = b
    /\ \A a, b \in updates : (a.tick = b.tick /\ a.id = b.id) => a = b
    /\ \A n \in notifications : n.eventType \in EventTypes

\* A tick met the entry and the stop-loss condition at once and was notified.
C4_Witness ==
    \E n \in notifications, u \in updates :
        /\ n.tick = u.tick
        /\ n.id = u.id
        /\ u.seen.status = "waiting_entry"
        /\ n.eventType = "stop_loss"

\* C5: an update that changes no row sends no notification for its tick,
\* and the strategy is not evaluated on a later tick before the next reload.
C5_RaceDiscard ==
    [][/\ \A t \in tasks :
            (t.pc = "update" /\ ~RowExists(t.id) /\ t \notin tasks')
            => ~\E n \in notifications' : n.tick = t.tick /\ n.id = t.id
       /\ tick' = tick + 1 =>
            \A t \in tasks' : t.tick = tick' => t.id \notin zeroRows]_vars

\* C10: no event of a strategy is written twice or notified twice.
C10_EventsAtMostOnce ==
    /\ \A a, b \in updates :
            (a.id = b.id /\ a.eventType = b.eventType) => a.tick = b.tick
    /\ \A a, b \in notifications :
            (a.id = b.id /\ a.eventType = b.eventType) => a.tick = b.tick

\* ------------------------------------------- trigger detector claims
Ticks == 1..Len(tickers)

SameSymbol(i, j) == tickers[i].symbol = tickers[j].symbol

\* The volume of ticker i is more than 120% of the baseline it met.
Qualifies(i) ==
    /\ tickers[i].baseline > 0
    /\ tickers[i].volume * BASELINE_DEN * 100
          > VOLUME_SPIKE_THRESHOLD_PCT * tickers[i].baseline

\* The price of ticker i is 0.5% or more off the oldest of its 5 minutes.
PriceQualifies(i) ==
    Abs(tickers[i].price - tickers[i].oldest) * 1000
        >= PRICE_MOVE_THRESHOLD_PERMILLE * tickers[i].oldest

\* The 15-minute window of ticker i holds a move of 5% or more.
Move(i) ==
    /\ tickers[i].points15 >= 2
    /\ Abs(tickers[i].price - tickers[i].oldest15) * 100
          >= CIRCUIT_BREAKER_THRESHOLD_PCT * tickers[i].oldest15

Direction(i) == IF tickers[i].price > tickers[i].oldest15 THEN "UP" ELSE "DOWN"

\* addPrice activated a breaker on ticker j.
Activated(j) == tickers[j].reason \in {"UP", "DOWN"}

\* Ticker i falls into the 30 minutes that follow an activation.
Running(i) ==
    \E j \in 1..(i - 1) :
        /\ SameSymbol(i, j)
        /\ Activated(j)
        /\ tickers[i].at < tickers[j].at + CIRCUIT_BREAKER_COOLDOWN

\* ... and the detector was not cleared since that activation.
RunningUncleared(i) ==
    \E j \in 1..(i - 1) :
        /\ SameSymbol(i, j)
        /\ Activated(j)
        /\ tickers[j].epoch = tickers[i].epoch
        /\ tickers[i].at < tickers[j].at + CIRCUIT_BREAKER_COOLDOWN

WritesOf(i, type) == {w \in triggerWrites : w.tick = i /\ w.type = type}
PersistedOf(i, type) == {r \in triggers : r.tick = i /\ r.type = type}
ErrorsOf(i, type) == {r \in errors : r.tick = i /\ r.type = type}
Pending(i, type) == \E t \in inserts : t.tick = i /\ t.type = type

\* Ticker i does not fall into the cooldown of an earlier volume trigger.
Fresh(i) ==
    ~ \E w \in triggerWrites :
        /\ w.type = "volume_spike"
        /\ w.tick < i
        /\ SameSymbol(w.tick, i)
        /\ w.epoch = tickers[i].epoch
        /\ tickers[i].at - w.at < TRIGGER_COOLDOWN

\* Two tickers of one symbol, both volume spikes, less than the cooldown
\* apart, no breaker blocking either and no reset between them, the first of
\* them outside any earlier cooldown.
CooldownPair(i, j) ==
    /\ i < j
    /\ SameSymbol(i, j)
    /\ Qualifies(i) /\ Qualifies(j)
    /\ ~tickers[i].shouldBlock /\ ~tickers[j].shouldBlock
    /\ tickers[i].epoch = tickers[j].epoch
    /\ tickers[j].at - tickers[i].at < TRIGGER_COOLDOWN
    /\ Fresh(i)

\* C6 as stated: once the writes of such a pair of tickers have resolved,
\* exactly one volume_spike Trigger is persisted for the pair.
C6_ExactlyOnePersisted ==
    \A i \in Ticks, j \in Ticks :
        (/\ CooldownPair(i, j)
         /\ ~Pending(i, "volume_spike")
         /\ ~Pending(j, "volume_spike"))
        => Cardinality(PersistedOf(i, "volume_spike")
                       \cup PersistedOf(j, "volume_spike")) = 1

\* C6: two tickers of one symbol that both qualify as a volume spike within
\* the cooldown, with no breaker and no reset between them, issue exactly one
\* Trigger write, that of the first, also while that write is still pending;
\* once it has resolved it has left either one Trigger or one logged error.
C6_CooldownOneWrite ==
    \A i \in Ticks, j \in Ticks :
        CooldownPair(i, j) =>
            /\ Cardinality(WritesOf(i, "volume_spike")) = 1
            /\ WritesOf(j, "volume_spike") = {}
            /\ PersistedOf(j, "volume_spike") = {}
            /\ Pending(i, "volume_spike")
                  => PersistedOf(i, "volume_spike") = {}
            /\ ~Pending(i, "volume_spike")
                  => Cardinality(PersistedOf(i, "volume_spike")
                                 \cup ErrorsOf(i, "volume_spike")) = 1

C6_Witness ==
    \E i \in Ticks, j \in Ticks :
        /\ CooldownPair(i, j)
        /\ tickers[i].at < tickers[j].at
        /\ Pending(i, "volume_spike")
        /\ WritesOf(j, "volume_spike") = {}

C8_BlockedTickNoTrigger ==
    \A i \in Ticks :
        tickers[i].shouldBlock =>
            /\ ~ \E w \in triggerWrites : w.tick = i
            /\ ~ \E r \in triggers : r.tick = i
            /\ ~ \E t \in inserts : t.tick = i

C8_Witness ==
    \E i \in Ticks :
        /\ tickers[i].shouldBlock
        /\ Qualifies(i)
        /\ PriceQualifies(i)
        /\ ~ \E w \in triggerWrites : w.tick = i

\* C9: no Trigger write is issued within the 30 minutes of a breaker that
\* was activated before the write and not cleared since, whichever ticker
\* activated it.
C9_FinalGate ==
    \A w \in triggerWrites :
        ~ \E j \in 1..w.after :
            /\ SameSymbol(j, w.tick)
            /\ Activated(j)
            /\ tickers[j].epoch = w.epoch
            /\ w.at < tickers[j].at + CIRCUIT_BREAKER_COOLDOWN

C9_Witness ==
    \E g \in gated :
        /\ g.type = "price_move"
        /\ WritesOf(g.tick, "volume_spike") # {}
        /\ WritesOf(g.tick, "price_move") = {}
        /\ \E j \in Ticks :
              /\ j > g.tick
              /\ Activated(j)
              /\ g.at < tickers[j].at + CIRCUIT_BREAKER_COOLDOWN

\* ------------------------------------------------ position monitor, II
\* A call of this step that was not suspended before it.
IssuedNow(t) == ~ \E u \in tasks : u.tick = t.tick /\ u.id = t.id

WithinTolerance(price, last) ==
    Abs(price - last) * EPSILON_DEN <= EPSILON_NUM * Abs(last)

\* C11: a write of current_price alone (a tick that changed no state) is
\* issued only at a price more than 0.1% off the price the row holds, the
\* last one persisted for the strategy.
C11_SilentSuppression ==
    [][\A t \in tasks' :
          (t.pc = "silent" /\ IssuedNow(t) /\ RowExists(t.id))
          => ~WithinTolerance(t.price, store[t.id].current_price)]_vars

\* The same for the v3.2.0 build alone.
C11_SilentSuppression_v3 ==
    [][build = "v3.2.0" =>
       \A t \in tasks' :
          (t.pc = "silent" /\ IssuedNow(t) /\ RowExists(t.id))
          => ~WithinTolerance(t.price, store[t.id].current_price)]_vars

\* ------------------------------------------------ baseline over the hours
\* Tickers an hour and more apart, at a steady price: the volume baseline is
\* seeded, then smoothed once per VOLUME_BASELINE_UPDATE.
BaselineVolumes == {0, 1000, 2000}

SteadyPrices == {100}

Hours == {59, 60, 61, 120, 122}

AdvanceHours(t) ==
    /\ now < t
    /\ now' = t
    /\ UNCHANGED <<build, posVars, monVars, baselines, lastUpdate, history,
                   priceHistory15m, activeBreakers, recentTriggers, inserts,
                   tickers, triggerWrites, triggers, gated, errors, epoch>>

NextBaseline ==
    \/ \E sym \in Symbols, p \in SteadyPrices, v \in BaselineVolumes :
          processTicker(sym, p, v)
    \/ \E sym \in Symbols, p \in SteadyPrices, v \in BaselineVolumes :
          handleMessage(sym, p, v)
    \/ \E t \in inserts, ok \in BOOLEAN : createTriggerDone(t, ok)
    \/ clear
    \/ reset
    \/ \E t \in Hours : AdvanceHours(t)

SpecBaseline == InitDetector /\ [][NextBaseline]_vars

\* The ticker handled by this step, for a symbol whose baseline is due.
DueTicker(sym) ==
    /\ Len(tickers') = Len(tickers) + 1
    /\ tickers'[Len(tickers')].symbol = sym
    /\ baselines[sym] # Absent
    /\ updateDue(lastUpdate[sym])

Smoothed(old, volume, new) ==
    new * 10 = old * 8 + volume * BASELINE_DEN * 2

\* C12: every ticker that finds the baseline of its symbol due leaves
\* new = old*0.8 + volume*0.2 as the baseline (from 1000, volume 2000 twice
\* gives 1200, then 1360).
C12_Ewma ==
    [][\A sym \in Symbols :
          DueTicker(sym)
          => Smoothed(baselines[sym], tickers'[Len(tickers')].volume,
                      baselines'[sym])]_vars

\* C12, for a baseline that is not 0: a due update sets the baseline to
\* 0.8 * old + 0.2 * volume.
C12_EwmaNonZero ==
    [][\A sym \in Symbols :
          (DueTicker(sym) /\ baselines[sym] # 0)
          => Smoothed(baselines[sym], tickers'[Len(tickers')].volume,
                      baselines'[sym])]_vars

\* 1000, then 1200 and 1360 after two due updates with volume 2000.
C12_Example ==
    /\ Len(tickers) = 3
    /\ tickers[1].baseline = 1000 * BASELINE_DEN
    /\ tickers[2].volume = 2000
    /\ tickers[2].baseline = 1200 * BASELINE_DEN
    /\ tickers[3].volume = 2000
    /\ tickers[3].baseline = 1360 * BASELINE_DEN
    /\ tickers[3].epoch = tickers[1].epoch

\* ------------------------------------------------ price window by the minute
\* Tickers a minute apart, around the PRICE_WINDOW.
WindowPrices == {100, 102, 105}

WindowVolumes == {10, 13}

Minutes == {1, 2, 6, 7}

AdvanceMinutes(t) ==
    /\ now < t
    /\ now' = t
    /\ UNCHANGED <<build, posVars, monVars, baselines, lastUpdate, history,
                   priceHistory15m, activeBreakers, recentTriggers, inserts,
                   tickers, triggerWrites, triggers, gated, errors, epoch>>

NextWindow ==
    \/ \E sym \in Symbols, p \in WindowPrices, v \in WindowVolumes :
          processTicker(sym, p, v)
    \/ \E sym \in Symbols, p \in WindowPrices, v \in WindowVolumes :
          handleMessage(sym, p, v)
    \/ \E t \in inserts, ok \in BOOLEAN : createTriggerDone(t, ok)
    \/ clear
    \/ reset
    \/ \E t \in Minutes : AdvanceMinutes(t)

SpecWindow == InitDetector /\ [][NextWindow]_vars

\* The point getChange reads is no older than the window.
FreshReference(h, sym) ==
    h[sym] # <<>> => now - h[sym][1].timestamp <= PRICE_WINDOW

\* A step that resumes processTicker after the insert of its volume trigger,
\* and so calls priceTracker.check (part_002 461).
ResumedCheck(t) ==
    /\ build = "v3.2.0"
    /\ t \in inserts
    /\ t \notin inserts'
    /\ t.type = "volume_spike"

\* C13: getChange is the change in percent from the first point of the
\* symbol's window to currentPrice, 0 for an empty window, and wherever it is
\* called that point is at most PRICE_WINDOW old.
C13_GetChange ==
    [][/\ \A sym \in Symbols :
             Len(tickers') > Len(tickers) => FreshReference(history', sym)
       /\ \A t \in inserts :
             ResumedCheck(t) => FreshReference(history, t.symbol)
       /\ \A sym \in Symbols, p \in WindowPrices :
             LET change == getChange(history, sym, p)
             IN  IF history[sym] = <<>>
                 THEN change.num = 0
                 ELSE change.num * history[sym][1].price
                         = (p - history[sym][1].price) * 100 * change.den]_vars

\* The same without the calls that follow an insert.
C13_GetChangeSameTurn ==
    [][/\ \A sym \in Symbols :
             Len(tickers') > Len(tickers) => FreshReference(history', sym)
       /\ \A sym \in Symbols, p \in WindowPrices :
             LET change == getChange(history, sym, p)
             IN  IF history[sym] = <<>>
                 THEN change.num = 0
                 ELSE change.num * history[sym][1].price
                         = (p - history[sym][1].price) * 100 * change.den]_vars

\* 100, 102 and 105 a minute apart: getChange(105) is 5.
C13_Example ==
    \E sym \in Symbols :
       /\ Len(history[sym]) = 3
       /\ history[sym][1] = [price |-> 100, timestamp |-> 0]
       /\ history[sym][2] = [price |-> 102, timestamp |-> 1]
       /\ history[sym][3] = [price |-> 105, timestamp |-> 2]
       /\ getChange(history, sym, 105).num = 5 * getChange(history, sym, 105).den

\* C14: a symbol's baseline, once it exists, exists after every step.
C14_NeverDeleted ==
    [][\A sym \in Symbols :
          baselines[sym] # Absent => baselines'[sym] # Absent]_vars

\* C14: a baseline is deleted by clear() / reset() alone, which stopMonitoring
\* calls and which deletes every baseline; tickers, resolved inserts and the
\* clock leave it in place.
C14_DeletedByClearOnly ==
    [][\A sym \in Symbols :
          (baselines[sym] # Absent /\ baselines'[sym] = Absent)
          => (epoch' = epoch + 1 /\ baselines' = NoTimes)]_vars

\* A baseline that outlived a due update, and was then cleared.
C14_Witness ==
    /\ Len(tickers) >= 2
    /\ tickers[1].epoch = 0
    /\ tickers[2].epoch = 0
    /\ tickers[2].at >= tickers[1].at + VOLUME_BASELINE_UPDATE
    /\ tickers[2].baseline # Absent
    /\ epoch = 1
    /\ baselines = NoTimes

\* ------------------------------------------------------- BinanceMonitor
\* The handlers below are functions of the record s: the monitor's fields
\* (m), the event loop's timers, sockets and suspended calls, and what the
\* handler did to the detector (reset) and to the strategy map (strategies).
Current ==
    [m |-> monitor, timers |-> timers, sockets |-> sockets, calls |-> calls,
     reset |-> FALSE, strategies |-> "keep", rows |-> <<>>, overflow |-> FALSE]

Call(pc, then, rows) == [pc |-> pc, then |-> then, rows |-> rows]

Issue(s, c) == [s EXCEPT !.calls = @ (+) SetToBag({c})]

Resolve(s, c) == [s EXCEPT !.calls = @ (-) SetToBag({c})]

\* setInterval / setTimeout assigned to the field k.
setInterval(s, k) == [s EXCEPT !.timers[k] = @ + 1, !.m[k] = TRUE]

\* `if (this.k) { clearInterval(this.k); this.k = null }`, also clearTimeout.
clearInterval(s, k) ==
    IF s.m[k] THEN [s EXCEPT !.timers[k] = @ - 1, !.m[k] = FALSE] ELSE s

\* setTimeout whose handle is not kept (part_002 967, index.ts 748).
setTimeout(s, k) == [s EXCEPT !.timers[k] = @ + 1]

\* index.ts 39-57: an error reads as 'stopped'.
getScannerStatus == IF config.up THEN config.scanner_status ELSE "stopped"

\* index.ts 59-98, part_002 867-888: an error reads as no pairs.
loadMonitoredPairs == IF config.up THEN config.monitored_pairs ELSE <<>>

\* ws.close(): the 'close' event follows in a later turn.
close(s) ==
    IF s.m.ws = Null
    THEN s
    ELSE [s EXCEPT !.sockets[s.m.ws] = IF @ = "open" THEN "closing" ELSE @]

\* `if (this.ws) { this.ws.close(); this.ws = null }`
closeWs(s) == [close(s) EXCEPT !.m.ws = Null]

\* this.ws = new WebSocket(url)
newWebSocket(s) ==
    LET free == {i \in SocketIds : s.sockets[i] = "closed"}
    IN  IF free = {}
        THEN [s EXCEPT !.overflow = TRUE]
        ELSE LET i == CHOOSE i \in free : \A j \in free : i <= j
             IN  [s EXCEPT !.sockets[i] = "open", !.m.ws = i]

\* part_002 925-974, index.ts 846-888.
connect(s) ==
    IF \/ build = "v1.2.0" /\ ~s.m.isMonitoring
       \/ s.m.monitoredSymbols = <<>>
    THEN s
    ELSE newWebSocket(s)

\* PositionMonitor.stop: part_002 561-568, index.ts 306-314.
positionMonitorStop(s) ==
    [clearInterval(s, "reloadTimer") EXCEPT !.m.isActive = FALSE,
                                           !.strategies = "clear"]

\* PositionMonitor.start up to its await: part_002 546-553, index.ts 298-300.
positionMonitorStart(s, then) ==
    IF build = "v3.2.0" /\ s.m.isActive
    THEN s
    ELSE Issue([s EXCEPT !.m.isActive = TRUE], Call("pmStart", then, SelectActive))

\* part_002 847-865, index.ts 814-844.
stopMonitoring(s) ==
    IF build = "v3.2.0"
    THEN [clearInterval(closeWs(s), "pairCheckTimer")
             EXCEPT !.reset = TRUE, !.m.isMonitoring = FALSE]
    ELSE IF ~s.m.isMonitoring
         THEN closeWs(s)
         ELSE LET a == positionMonitorStop(s)
                  b == [a EXCEPT !.m.isMonitoring = FALSE]
              IN  [closeWs(clearInterval(b, "reconnectTimer")) EXCEPT !.reset = TRUE]

\* index.ts 796-812, up to its await.
startMonitoringV1(s) ==
    IF s.m.isMonitoring \/ s.m.monitoredSymbols = <<>>
    THEN s
    ELSE positionMonitorStart([s EXCEPT !.m.isMonitoring = TRUE], "connect")

\* index.ts 719-727, up to its await.
checkAndUpdatePairsV1(s) ==
    IF s.m.isMonitoring THEN Issue(s, Call("pairs", "", <<>>)) ELSE s

\* index.ts 693-709.
startPairCheckLoop(s) ==
    IF s.m.pairCheckTimer
    THEN s
    ELSE setInterval(checkAndUpdatePairsV1(s), "pairCheckTimer")

\* index.ts 711-717.
stopPairCheckLoop(s) == clearInterval(s, "pairCheckTimer")

\* index.ts 684-691: after the first check the interval is set.
thenLoop(s, then) ==
    IF then = "loop" THEN setInterval(s, "statusCheckTimer") ELSE s

\* index.ts 930-940.
stop(s) ==
    stopMonitoring(stopPairCheckLoop(clearInterval(s, "statusCheckTimer")))

\* part_002 979-990.
shutdown(s) ==
    positionMonitorStop(stopMonitoring(clearInterval(s, "statusCheckTimer")))

\* What the handler of SIGINT / SIGTERM calls before process.exit(0)
\* (index.ts 965-975, part_002 1014-1022).
onSignal(s) == IF build = "v3.2.0" THEN shutdown(s) ELSE stop(s)

\* The bounds on what the event loop holds.
Fits(s) ==
    /\ ~s.overflow
    /\ BagCardinality(s.calls) <= MaxCalls
    /\ \A k \in TimerKinds : s.timers[k] <= MaxTimers

\* The state a handler leaves: TriggerDetector.clear() / reset() and the
\* strategy map of the PositionMonitor included.
CommitMon(s) ==
    /\ Fits(s)
    /\ monitor' = s.m
    /\ timers' = s.timers
    /\ sockets' = s.sockets
    /\ calls' = s.calls
    /\ IF s.reset /\ Seen
       THEN /\ baselines' = NoTimes
            /\ lastUpdate' = NoTimes
            /\ history' = NoPoints
            /\ recentTriggers' = NoKeys
            /\ priceHistory15m' = IF build = "v3.2.0" THEN NoPoints
                                  ELSE priceHistory15m
            /\ activeBreakers' = IF build = "v3.2.0" THEN NoBreakers
                                 ELSE activeBreakers
            /\ epoch' = epoch + 1
       ELSE UNCHANGED <<baselines, lastUpdate, history, recentTriggers,
                        priceHistory15m, activeBreakers, epoch>>
    /\ IF s.strategies = "keep"
       THEN UNCHANGED <<activeStrategies, tasks, zeroRows>>
       ELSE /\ activeStrategies' = IF s.strategies = "load"
                                   THEN GroupBySymbol(s.rows)
                                   ELSE [sym \in Symbols |-> <<>>]
            /\ tasks' = {[t EXCEPT !.stale = TRUE] : t \in tasks}
            /\ zeroRows' = IF s.strategies = "load" THEN {} ELSE zeroRows
    /\ UNCHANGED <<build, now, inserts, tickers, triggerWrites, triggers,
                   gated, errors, cfg, store, reload, tick, updates,
                   notifications>>

Alive == process \in {"starting", "serving"}

\* index.ts 672-682 (main, 962): start() up to the await of the strategies.
start ==
    /\ build = "v1.2.0"
    /\ process = "new"
    /\ process' = "starting"
    /\ CommitMon(positionMonitorStart(Current, "statusLoop"))
    /\ UNCHANGED config

\* part_002 776-789 (main, 1011-1025): the signal handlers are set, then
\* BinanceMonitor.initialize() runs up to the await of loadThresholds.
monitorInitialize ==
    /\ build = "v3.2.0"
    /\ process = "new"
    /\ process' = "serving"
    /\ CommitMon(Issue(Current, Call("thresholds", "", <<>>)))
    /\ UNCHANGED config

\* part_002 782-786, 791-798: the status loop starts, the first check and
\* the position monitor's first load are issued.
loadThresholdsDone(c) ==
    /\ Alive
    /\ BagIn(c, calls)
    /\ c.pc = "thresholds"
    /\ LET a == setInterval(Resolve(Current, c), "statusCheckTimer")
           b == Issue(a, Call("status", "", <<>>))
       IN  CommitMon(positionMonitorStart(b, ""))
    /\ UNCHANGED <<config, process>>

\* PositionMonitor.start after its first load: part_002 553-558, index.ts
\* 301-302 and 317-325; then its caller goes on (index.ts 681 and main
\* 965-975, or index.ts 810-811).
positionMonitorStarted(c) ==
    /\ Alive
    /\ BagIn(c, calls)
    /\ c.pc = "pmStart"
    /\ LET s == Resolve(Current, c)
           loaded == IF config.up
                     THEN [s EXCEPT !.strategies = "load", !.rows = c.rows]
                     ELSE s
           a == IF build = "v3.2.0"
                THEN setInterval(loaded, "reloadTimer")
                ELSE setInterval(clearInterval(loaded, "reloadTimer"), "reloadTimer")
       IN  CommitMon(CASE c.then = "statusLoop" -> Issue(a, Call("status", "loop", <<>>))
                       [] c.then = "connect" -> connect(a)
                       [] OTHER -> a)
    /\ process' = IF c.then = "statusLoop" THEN "serving" ELSE process
    /\ UNCHANGED config

\* part_002 800-826, index.ts 757-792: the select of scanner_status resolves.
checkAndUpdateStatusDone(c) ==
    /\ Alive
    /\ BagIn(c, calls)
    /\ c.pc = "status"
    /\ LET s == Resolve(Current, c)
           status == getScannerStatus
       IN  CommitMon(
             IF build = "v3.2.0"
             THEN IF ~config.up THEN s
                  ELSE IF status = "running" /\ ~s.m.isMonitoring
                       THEN Issue(s, Call("startPairs", "", <<>>))
                  ELSE IF status = "stopped" /\ s.m.isMonitoring
                       THEN stopMonitoring(s)
                  ELSE s
             ELSE IF status = "running" /\ ~s.m.isMonitoring
                  THEN Issue(s, Call("statusPairs", c.then, <<>>))
                  ELSE IF status = "stopped" /\ s.m.isMonitoring
                       THEN thenLoop(stopPairCheckLoop(stopMonitoring(s)), c.then)
                  ELSE thenLoop(s, c.then))
    /\ UNCHANGED <<config, process>>

\* index.ts 763-780: the pairs are loaded, monitoring and the pair loop start.
statusPairsDone(c) ==
    /\ Alive
    /\ build = "v1.2.0"
    /\ BagIn(c, calls)
    /\ c.pc = "statusPairs"
    /\ LET s == Resolve(Current, c)
           a == [s EXCEPT !.m.monitoredSymbols = loadMonitoredPairs]
       IN  CommitMon(IF a.m.monitoredSymbols = <<>>
                     THEN thenLoop(a, c.then)
                     ELSE thenLoop(startPairCheckLoop(startMonitoringV1(a)), c.then))
    /\ UNCHANGED <<config, process>>

\* part_002 828-845: startMonitoring after its load of the pairs.
startMonitoringDone(c) ==
    /\ Alive
    /\ build = "v3.2.0"
    /\ BagIn(c, calls)
    /\ c.pc = "startPairs"
    /\ LET s == Resolve(Current, c)
           a == [s EXCEPT !.m.monitoredSymbols = loadMonitoredPairs]
       IN  CommitMon(IF a.m.monitoredSymbols = <<>>
                     THEN a
                     ELSE [setInterval(connect(a), "pairCheckTimer")
                              EXCEPT !.m.isMonitoring = TRUE])
    /\ UNCHANGED <<config, process>>

\* part_002 896-923, index.ts 726-755: checkAndUpdatePairs after its load.
checkAndUpdatePairsDone(c) ==
    /\ Alive
    /\ BagIn(c, calls)
    /\ c.pc = "pairs"
    /\ LET s == Resolve(Current, c)
           newPairs == loadMonitoredPairs
           a == [s EXCEPT !.m.monitoredSymbols = newPairs]
       IN  CommitMon(
             IF newPairs = s.m.monitoredSymbols THEN s
             ELSE IF build = "v3.2.0"
                  THEN IF newPairs = <<>>
                       THEN [closeWs(s) EXCEPT !.m.monitoredSymbols = <<>>]
                       ELSE connect(close(a))
                  ELSE IF newPairs = <<>>
                       THEN stopMonitoring(a)
                       ELSE setTimeout(stopMonitoring(a), "restart"))
    /\ UNCHANGED <<config, process>>

\* part_002 792-794, index.ts 689-691: the status interval fires.
statusCheckFires ==
    /\ Alive
    /\ timers["statusCheckTimer"] > 0
    /\ CommitMon(Issue(Current, Call("status", "", <<>>)))
    /\ UNCHANGED <<config, process>>

\* part_002 891-893, index.ts 706-708 and 719-723: the pair interval fires.
pairCheckFires ==
    /\ Alive
    /\ timers["pairCheckTimer"] > 0
    /\ CommitMon(IF build = "v3.2.0"
                 THEN Issue(Current, Call("pairs", "", <<>>))
                 ELSE checkAndUpdatePairsV1(Current))
    /\ UNCHANGED <<config, process>>

\* part_002 556-558, index.ts 320-324: the reload interval fires.
reloadFires ==
    /\ Alive
    /\ timers["reloadTimer"] > 0
    /\ build = "v1.2.0" => monitor.isActive
    /\ ~reload.pending
    /\ reload' = [pending |-> TRUE, rows |-> SelectActive]
    /\ UNCHANGED <<others, cfg, store, activeStrategies, tasks, tick, updates,
                   notifications, zeroRows>>

\* index.ts 748-750: the delayed startMonitoring after a change of pairs.
restartFires ==
    /\ Alive
    /\ timers["restart"] > 0
    /\ CommitMon(startMonitoringV1([Current EXCEPT !.timers["restart"] = @ - 1]))
    /\ UNCHANGED <<config, process>>

\* part_002 967, index.ts 923-927: the reconnect timeout fires.
reconnectFires ==
    /\ Alive
    /\ timers["reconnectTimer"] > 0
    /\ LET a == [Current EXCEPT !.timers["reconnectTimer"] = @ - 1,
                                !.m.reconnectTimer = FALSE]
       IN  CommitMon(IF build = "v1.2.0"
                        /\ ~(a.m.isMonitoring /\ a.m.monitoredSymbols # <<>>)
                     THEN a
                     ELSE connect(a))
    /\ UNCHANGED <<config, process>>

\* part_002 960-969, index.ts 869-877 and 917-928: 'close' of a socket that
\* was closed by the monitor or dropped by the peer.
socketClosed(i) ==
    /\ Alive
    /\ sockets[i] \in {"open", "closing"}
    /\ LET a == [Current EXCEPT !.sockets[i] = "closed"]
       IN  CommitMon(
             IF build = "v3.2.0"
             THEN IF a.m.isMonitoring /\ a.m.monitoredSymbols # <<>>
                  THEN setTimeout(a, "reconnectTimer")
                  ELSE a
             ELSE IF a.m.isMonitoring
                  THEN setInterval(clearInterval(a, "reconnectTimer"), "reconnectTimer")
                  ELSE a)
    /\ UNCHANGED <<config, process>>

\* process.exit(0): the event loop and all it holds are gone.
exit(s) ==
    [s EXCEPT !.timers = NoTimers, !.calls = EmptyBag,
              !.sockets = [i \in SocketIds |-> "closed"]]

\* index.ts 965-975, part_002 1014-1022: SIGINT or SIGTERM.
onSIGINT ==
    /\ process = "serving"
    /\ process' = "exited"
    /\ CommitMon(exit(onSignal(Current)))
    /\ UNCHANGED config

\* The dashboard writes system_config; the store fails or recovers.
SetScannerStatus(v) ==
    /\ Alive
    /\ config.scanner_status # v
    /\ config' = [config EXCEPT !.scanner_status = v]
    /\ UNCHANGED <<build, posVars, trigVars, monitor, timers, sockets, calls,
                   process>>

SetMonitoredPairs(p) ==
    /\ Alive
    /\ config.monitored_pairs # p
    /\ config' = [config EXCEPT !.monitored_pairs = p]
    /\ UNCHANGED <<build, posVars, trigVars, monitor, timers, sockets, calls,
                   process>>

SelectsFail(b) ==
    /\ Alive
    /\ config.up # b
    /\ config' = [config EXCEPT !.up = b]
    /\ UNCHANGED <<build, posVars, trigVars, monitor, timers, sockets, calls,
                   process>>

NextMon ==
    \/ start
    \/ monitorInitialize
    \/ \E c \in BagToSet(calls) : loadThresholdsDone(c)
    \/ \E c \in BagToSet(calls) : positionMonitorStarted(c)
    \/ \E c \in BagToSet(calls) : checkAndUpdateStatusDone(c)
    \/ \E c \in BagToSet(calls) : statusPairsDone(c)
    \/ \E c \in BagToSet(calls) : startMonitoringDone(c)
    \/ \E c \in BagToSet(calls) : checkAndUpdatePairsDone(c)
    \/ statusCheckFires
    \/ pairCheckFires
    \/ reloadFires
    \/ restartFires
    \/ reconnectFires
    \/ \E i \in SocketIds : socketClosed(i)
    \/ onSIGINT
    \/ \E v \in {"running", "stopped"} : SetScannerStatus(v)
    \/ \E p \in PairLists : SetMonitoredPairs(p)
    \/ \E b \in BOOLEAN : SelectsFail(b)
    \/ loadActiveStrategiesDone
    \/ loadActiveStrategiesError

SpecMon == InitDetector /\ [][NextMon]_vars

\* The reconnect timeout, when it fires in s, opens a WebSocket.
ReconnectOpens(s) ==
    /\ s.timers["reconnectTimer"] > 0
    /\ build = "v1.2.0" => s.m.isMonitoring
    /\ s.m.monitoredSymbols # <<>>

PeriodicTimers == {"statusCheckTimer", "pairCheckTimer", "reloadTimer"}

\* C15: in every state in which a signal can be handled, stop() / shutdown()
\* leaves no status-check, pair-reload or strategy-reload timer scheduled
\* and no reconnect timeout that opens a connection.
C15_ShutdownStopsTimers ==
    process = "serving"
    => LET s == onSignal(Current)
       IN  /\ \A k \in PeriodicTimers : s.timers[k] = 0
           /\ ~ReconnectOpens(s)

\* The same for the v3.2.0 build alone.
C15_ShutdownStopsTimers_v3 ==
    (process = "serving" /\ build = "v3.2.0")
    => LET s == onSignal(Current)
       IN  /\ \A k \in PeriodicTimers : s.timers[k] = 0
           /\ ~ReconnectOpens(s)

\* The same for the periodic timers of v1.2.0 once monitoring has started.
C15_ShutdownStopsTimers_v1Started ==
    (process = "serving" /\ build = "v1.2.0" /\ monitor.isMonitoring)
    => LET s == onSignal(Current)
       IN  \A k \in PeriodicTimers : s.timers[k] = 0

\* The step resolves the call c of the running monitor.
Resolved(c) ==
    /\ process' # "exited"
    /\ CopiesIn(c, calls') < CopiesIn(c, calls)

\* C16: a select of scanner_status or of monitored_pairs that fails while
\* the scanner is monitoring leaves it monitoring, with the pair list it had.
C16_ConfigErrorKeepsLastKnown ==
    [][\A c \in BagToSet(calls) :
          (/\ Resolved(c)
           /\ c.pc \in {"status", "pairs"}
           /\ ~config.up
           /\ monitor.isMonitoring)
          => /\ monitor'.isMonitoring
             /\ monitor'.monitoredSymbols = monitor.monitoredSymbols]_vars

\* The same for the select of scanner_status in the v3.2.0 build.
C16_StatusErrorKeeps_v3 ==
    [][\A c \in BagToSet(calls) :
          (/\ Resolved(c)
           /\ c.pc = "status"
           /\ build = "v3.2.0"
           /\ ~config.up
           /\ monitor.isMonitoring)
          => /\ monitor'.isMonitoring
             /\ monitor'.monitoredSymbols = monitor.monitoredSymbols]_vars

\* The same for the select of monitored_pairs in the v3.2.0 build.
C16_PairsErrorKeeps_v3 ==
    [][\A c \in BagToSet(calls) :
          (/\ Resolved(c)
           /\ c.pc = "pairs"
           /\ build = "v3.2.0"
           /\ ~config.up
           /\ monitor.isMonitoring)
          => /\ monitor'.isMonitoring
             /\ monitor'.monitoredSymbols = monitor.monitoredSymbols]_vars

\* The same for the select of scanner_status in the v1.2.0 build.
C16_StatusErrorKeeps_v1 ==
    [][\A c \in BagToSet(calls) :
          (/\ Resolved(c)
           /\ c.pc = "status"
           /\ build = "v1.2.0"
           /\ ~config.up
           /\ monitor.isMonitoring)
          => /\ monitor'.isMonitoring
             /\ monitor'.monitoredSymbols = monitor.monitoredSymbols]_vars

\* ------------------------------------------------ position monitor, III
\* The position monitor over a row whose targets and stop-loss overlap, next
\* to one where they do not.
InitOverlap ==
    /\ build \in Builds
    /\ InitPosOf({LongStrategy, OverlapStrategy})
    /\ InitTrig
    /\ InitMon

SpecPosOverlap == InitOverlap /\ [][NextPos]_vars

TargetValue(c, n) ==
    CASE n = 3 -> c.target_3 [] n = 2 -> c.target_2 [] OTHER -> c.target_1

\* Target n is in the targets_hit the tick read.
Recorded(th, n) ==
    IF build = "v3.2.0" THEN targetEvent(n) \in th ELSE n <= th

\* The tick of the update record reaches a target it did not read as hit.
ReachesNewTarget(u) ==
    \E n \in 1..3 :
       /\ ~Recorded(u.seen.targets_hit, n)
       /\ targetReached(cfg[u.id], u.price, TargetValue(cfg[u.id], n))

\* C17: a tick of an in_position strategy whose price reaches both a target
\* not yet recorded and the stop-loss has the target outcome: the event is
\* the target's and the status is not stopped.
C17_TargetBeforeStopLoss ==
    \A u \in updates :
       (/\ u.seen.status = "in_position"
        /\ ReachesNewTarget(u)
        /\ stopLossReached(cfg[u.id], u.price))
       => /\ u.eventType \in TargetNames
          /\ u.status # "stopped"

\* The same for target 3 in the v1.2.0 build.
C17_Target3BeforeStopLoss_v1 ==
    \A u \in updates :
       (/\ build = "v1.2.0"
        /\ u.seen.status = "in_position"
        /\ ~Recorded(u.seen.targets_hit, 3)
        /\ targetReached(cfg[u.id], u.price, cfg[u.id].target_3)
        /\ stopLossReached(cfg[u.id], u.price))
       => /\ u.eventType = "target_3"
          /\ u.status = "completed"

\* The same for the v3.2.0 build alone.
C17_TargetBeforeStopLoss_v3 ==
    \A u \in updates :
       (/\ build = "v3.2.0"
        /\ u.seen.status = "in_position"
        /\ ReachesNewTarget(u)
        /\ stopLossReached(cfg[u.id], u.price))
       => /\ u.eventType \in TargetNames
          /\ u.status # "stopped"

\* A call of checkStrategy issued by this step.
Started(t) == t.tick = tick' /\ tick' = tick + 1

\* The entry condition of the row, at the price of the call.
EntryCondition(t) ==
    /\ t.seen.status = "waiting_entry"
    /\ cfg[t.id].entry_min # Null
    /\ cfg[t.id].entry_max # Null
    /\ \/ cfg[t.id].position_type = "LONG" /\ t.price <= cfg[t.id].entry_max
       \/ cfg[t.id].position_type = "SHORT" /\ t.price >= cfg[t.id].entry_min

\* The call takes the strategy out of waiting_entry.
Enters(t) ==
    /\ t.pc = "update"
    /\ t.seen.status = "waiting_entry"
    /\ t.status # "waiting_entry"

\* C18: a tick takes a strategy out of waiting_entry if and only if the
\* strategy has an entry range and is LONG with price <= entry_max or SHORT
\* with price >= entry_min.
C18_EntryRule ==
    [][\A t \in tasks' : Started(t) => (Enters(t) <=> EntryCondition(t))]_vars

\* The same for the v1.2.0 build alone.
C18_EntryRule_v1 ==
    [][build = "v1.2.0" =>
       \A t \in tasks' : Started(t) => (Enters(t) <=> EntryCondition(t))]_vars

\* C19: a tick that meets the entry condition of a waiting_entry strategy
\* takes it out of waiting_entry and emits entry_reached, the targets being
\* evaluated on the same tick.
C19_EntryTick ==
    [][\A t \in tasks' :
          (Started(t) /\ EntryCondition(t))
          => /\ Enters(t)
             /\ t.eventType = "entry_reached"
             /\ TargetsCount(t.targets_hit) =
                   Cardinality({n \in 1..3 :
                       targetReached(cfg[t.id], t.price, TargetValue(cfg[t.id], n))})]_vars

\* The same for the v1.2.0 build alone.
C19_EntryTick_v1 ==
    [][build = "v1.2.0" =>
       \A t \in tasks' :
          (Started(t) /\ EntryCondition(t))
          => /\ Enters(t)
             /\ t.eventType = "entry_reached"]_vars

\* In v1.2.0 the tick enters, and its one event is entry_reached unless the
\* same tick meets the stop-loss or a target.
C19_EntryTickOneEvent_v1 ==
    [][build = "v1.2.0" =>
       \A t \in tasks' :
          (Started(t) /\ EntryCondition(t))
          => /\ Enters(t)
             /\ \/ t.eventType = "entry_reached"
                \/ (t.eventType = "stop_loss" /\ stopLossReached(cfg[t.id], t.price))
                \/ (t.eventType \in TargetNames
                    /\ targetReached(cfg[t.id], t.price, cfg[t.id].target_1))]_vars

\* The call records target_3, which was not recorded before it.
CompletedNow(t) ==
    /\ Recorded(t.targets_hit, 3)
    /\ ~Recorded(t.seen.targets_hit, 3)

\* After the target step of the call the strategy is in_position.
InPositionAfterTargets(t) ==
    /\ t.seen.status = "in_position" \/ EntryCondition(t)
    /\ ~CompletedNow(t)

\* A strategy in_position after the target step whose stop-loss the price
\* meets is written as stopped with a stop_loss event.
StopLossStops(t) ==
    (InPositionAfterTargets(t) /\ stopLossReached(cfg[t.id], t.price))
    => /\ t.pc = "update"
       /\ t.status = "stopped"
       /\ t.eventType = "stop_loss"

\* A call that completes the strategy by T3 has no stop_loss event.
NoStopLossAfterT3(t) ==
    CompletedNow(t) => t.eventType # "stop_loss"

\* C20: a strategy that is in_position after the target step and meets its
\* stop-loss gets status stopped and a stop_loss event; a strategy completed
\* by T3 on this tick gets no stop_loss event on it.
C20_StopLossRule ==
    [][\A t \in tasks' :
          Started(t) => (StopLossStops(t) /\ NoStopLossAfterT3(t))]_vars

\* The same for the v1.2.0 build alone.
C20_StopLossRule_v1 ==
    [][build = "v1.2.0" =>
       \A t \in tasks' :
          Started(t) => (StopLossStops(t) /\ NoStopLossAfterT3(t))]_vars

\* The second half of the rule alone.
C20_NoStopLossAfterT3 ==
    [][\A t \in tasks' : Started(t) => NoStopLossAfterT3(t)]_vars

\* The first half of the rule with the status v3.2.0 writes.
C20_StopLossCompletes_v3 ==
    [][build = "v3.2.0" =>
       \A t \in tasks' :
          (Started(t) /\ stopLossReached(cfg[t.id], t.price))
          => /\ t.pc = "update"
             /\ t.status = "completed"
             /\ t.eventType = "stop_loss"]_vars

\* ======================================= position monitor, IV: no entry range
\* A row without an entry range: entry_min and entry_max are nullable
\* columns (index.ts 22-23).
NoEntryStrategy ==
    [symbol |-> "BTCUSDT", position_type |-> "LONG",
     entry_min |-> Null, entry_max |-> Null,
     target_1 |-> 1100, target_2 |-> 1200, target_3 |-> 1300,
     stop_loss |-> 900]

InitNoEntry ==
    /\ build \in Builds
    /\ InitPosOf({LongStrategy, NoEntryStrategy})
    /\ InitTrig
    /\ InitMon

SpecPosNoEntry == InitNoEntry /\ [][NextPos]_vars

\* The call found the strategy waiting_entry and its entry condition not
\* met, or the row without an entry range.
StillWaiting(t) ==
    /\ t.seen.status = "waiting_entry"
    /\ ~EntryCondition(t)

\* The call leaves targets_hit and status as it found them and has no event.
NothingDecided(t) ==
    /\ t.pc = "silent"
    /\ t.eventType = ""

\* C21: a tick on a waiting_entry strategy whose entry condition is not met
\* gives no target or stop-loss event and changes neither targets_hit nor
\* status.
C21_OnlyInPosition ==
    [][\A t \in tasks' : (Started(t) /\ StillWaiting(t)) => NothingDecided(t)]_vars

\* The same for the v1.2.0 build alone.
C21_OnlyInPosition_v1 ==
    [][build = "v1.2.0" =>
       \A t \in tasks' : (Started(t) /\ StillWaiting(t)) => NothingDecided(t)]_vars

\* ---- C22
Terminal == {"completed", "stopped"}

\* A call started by this step that issues a state-changing update, and with
\* it the event of the update.
IssuesUpdate(t) == Started(t) /\ t.pc = "update"

\* Once the stored status of a strategy is completed or stopped, no tick
\* issues a state-changing update or an event for it.
C22_TerminalUntracked ==
    [][\A t \in tasks' :
          IssuesUpdate(t) => store[t.id].status \notin Terminal]_vars

\* C22: once a strategy is stored as completed or stopped and every call on
\* it has returned, no later tick issues a state-changing update or an event
\* for it.
C22_TerminalUntrackedReturned ==
    [][\A t \in tasks' :
          (IssuesUpdate(t) /\ ~ \E u \in tasks : u.id = t.id)
          => store[t.id].status \notin Terminal]_vars

\* In v1.2.0 the call that decided completed or stopped removes the strategy
\* from the map when it returns.
C22_RemovedOnReturn_v1 ==
    [][build = "v1.2.0" =>
       \A t \in tasks :
          (/\ t.status \in Terminal
           /\ t.pc \in {"update", "notify"}
           /\ ~ \E u \in tasks' : u.tick = t.tick /\ u.id = t.id)
          => \A i \in 1..Len(activeStrategies'[cfg[t.id].symbol]) :
                activeStrategies'[cfg[t.id].symbol][i].id # t.id]_vars

\* ---- C23
\* The update of call t resolves in this step.
UpdateResolves(t) ==
    /\ t \in tasks
    /\ t.pc = "update"
    /\ t \notin tasks'
    /\ \A u \in tasks' : (u.tick = t.tick /\ u.id = t.id) => u.pc = "notify"
    /\ reload' = reload

\* The stored state is no longer the one the call read from the map.
ChangedSinceLoad(t) ==
    \/ store[t.id].status # t.seen.status
    \/ store[t.id].targets_hit # t.seen.targets_hit

\* C23: an update of the tracker on a row whose stored status or targets_hit
\* changed since the tracker read it changes no row: the stored status and
\* targets_hit stay.
C23_NoOverwrite ==
    [][\A t \in tasks :
          (UpdateResolves(t) /\ ChangedSinceLoad(t) /\ RowExists(t.id))
          => /\ store'[t.id].status = store[t.id].status
             /\ store'[t.id].targets_hit = store[t.id].targets_hit]_vars

\* The update is by id alone: a row that is gone is the one case in which it
\* changes nothing.
C23_ZeroRowsOnlyWhenGone ==
    [][\A t \in tasks :
          (UpdateResolves(t) /\ ~RowExists(t.id)) => store' = store]_vars

\* ---- C24
\* The fetch of the notification of call t resolves in this step, with a
\* response that is ok or not, or with an exception.
NotifyResolves(t) ==
    /\ t \in tasks
    /\ t.pc = "notify"
    /\ ~ \E u \in tasks' : u.tick = t.tick /\ u.id = t.id

\* The objects of the map that stand for the strategy of call t.
LocalCopies(map, t) ==
    {map[cfg[t.id].symbol][i] : i \in
        {j \in 1..Len(map[cfg[t.id].symbol]) : map[cfg[t.id].symbol][j].id = t.id}}

\* The map after the call: v1.2.0 holds what the call wrote, or nothing for a
\* completed or stopped strategy; v3.2.0 never writes to the map.
InMemoryAsUpdated(t) ==
    IF build = "v3.2.0"
    THEN activeStrategies' = activeStrategies
    ELSE \A s \in LocalCopies(activeStrategies', t) :
            /\ t.status \notin Terminal
            /\ ~t.stale => (s.status = t.status /\ s.targets_hit = t.targets_hit)

\* C24: a notification is issued only by the step in which the update of its
\* call returns without error and with a row; and the step in which the
\* notification resolves, failed or not, changes no stored row, issues no
\* further notification or update for the strategy and leaves the map as
\* updated.
C24_NotifyAfterUpdate ==
    [][/\ \A n \in notifications' \ notifications :
            \E t \in tasks :
               /\ UpdateResolves(t)
               /\ n = [tick |-> t.tick, id |-> t.id, eventType |-> t.eventType]
               /\ RowExists(t.id)
               /\ store'[t.id].status = t.status
               /\ store'[t.id].targets_hit = t.targets_hit
       /\ \A t \in tasks :
            NotifyResolves(t)
            => /\ store' = store
               /\ notifications' = notifications
               /\ \A u \in updates' \ updates : u.id # t.id
               /\ InMemoryAsUpdated(t)]_vars

\* An update that failed and sent no notification, and a notification that
\* resolved.
C24_Witness ==
    /\ \E u \in updates :
          /\ ~ \E t \in tasks : t.tick = u.tick /\ t.id = u.id
          /\ ~ \E n \in notifications : n.tick = u.tick /\ n.id = u.id
    /\ \E n \in notifications :
          /\ ~ \E t \in tasks : t.tick = n.tick /\ t.id = n.id
          /\ store[n.id].status \in {"in_position", "completed", "stopped"}

\* ---- C25
\* The strategies a list or a map holds, as a set, and how many objects.
Tracked(map) ==
    UNION {{map[sym][i] : i \in 1..Len(map[sym])} : sym \in Symbols}

Objects(map) ==
    UNION {{<<sym, i>> : i \in 1..Len(map[sym])} : sym \in Symbols}

\* The rows of the table with an active status, as the select returns them.
ActiveRows ==
    {[id |-> id, status |-> store[id].status,
      targets_hit |-> store[id].targets_hit,
      current_price |-> store[id].current_price] :
        id \in {i \in StrategyIds : store[i].status \in ActiveStatuses}}

\* The select of a reload is issued by this step.
ReloadQueries == ~reload.pending /\ reload'.pending

\* The select of a reload resolves with its rows in this step: the map or
\* the calls that hold its objects are not as they were.
ReloadSucceeds ==
    /\ reload.pending
    /\ ~reload'.pending
    /\ activeStrategies' # activeStrategies \/ tasks' # tasks

\* C25: the rows a reload reads are exactly the rows whose status is
\* waiting_entry or in_position when the query is made, and after a
\* successful reload the map holds exactly these rows, each once and under
\* its symbol, and nothing of what it held before.
C25_ReloadReplaces ==
    [][/\ ReloadQueries
          => /\ {reload'.rows[i] : i \in 1..Len(reload'.rows)} = ActiveRows
             /\ Len(reload'.rows) = Cardinality(ActiveRows)
       /\ ReloadSucceeds
          => /\ Tracked(activeStrategies') =
                   {reload.rows[i] : i \in 1..Len(reload.rows)}
             /\ Cardinality(Objects(activeStrategies')) = Len(reload.rows)
             /\ \A sym \in Symbols :
                   \A i \in 1..Len(activeStrategies'[sym]) :
                      cfg[activeStrategies'[sym][i].id].symbol = sym]_vars

\* In v3.2.0, which takes no strategy out of the map between reloads, a
\* strategy that was evaluated and then paused is gone from the map.
C25_Witness ==
    /\ build = "v3.2.0"
    /\ tick >= 1
    /\ ~reload.pending
    /\ \A id \in StrategyIds : store[id].status = "paused"
    /\ Tracked(activeStrategies) = {}

\* ------------------------------------------- cooldown after a first ticker
\* The detector as a first ticker of BTCUSDT at price 100 with volume 10 left
\* it at minute 0: a baseline of 10, one point in each window (v1.2.0 has no
\* 15-minute window).  The record of tickers begins after it.
CooldownPrices == {100, 101}

CooldownVolumes == {10, 13}

CooldownMinutes == {4, 5, 9}

FirstPoint == [price |-> 100, timestamp |-> 0]

InitWarm ==
    /\ build \in Builds
    /\ InitPosOf({LongStrategy})
    /\ \A id \in StrategyIds : store[id].status = "in_position"
    /\ InitMon
    /\ now = 0
    /\ baselines = [sym \in Symbols |-> 10 * BASELINE_DEN]
    /\ lastUpdate = [sym \in Symbols |-> 0]
    /\ history = [sym \in Symbols |-> <<FirstPoint>>]
    /\ priceHistory15m =
          [sym \in Symbols |-> IF build = "v3.2.0" THEN <<FirstPoint>> ELSE <<>>]
    /\ activeBreakers = NoBreakers
    /\ recentTriggers = NoKeys
    /\ inserts = {}
    /\ tickers = <<>>
    /\ triggerWrites = {}
    /\ triggers = {}
    /\ gated = {}
    /\ errors = {}
    /\ epoch = 0

NextCooldown ==
    \/ \E sym \in Symbols, p \in CooldownPrices, v \in CooldownVolumes :
          processTicker(sym, p, v)
    \/ \E sym \in Symbols, p \in CooldownPrices, v \in CooldownVolumes :
          handleMessage(sym, p, v)
    \/ \E t \in inserts, ok \in BOOLEAN : createTriggerDone(t, ok)
    \/ clear
    \/ reset
    \/ \E t \in CooldownMinutes : AdvanceMinutes(t)

SpecCooldown == InitWarm /\ [][NextCooldown]_vars

\* ---- C26
\* The write whose insert failed: that of ticker e.tick for e.type.
FailedWrites ==
    {w \in triggerWrites : \E e \in errors : e.tick = w.tick /\ e.type = w.type}

\* Write w is issued for the key of write o, after it and less than the
\* cooldown after it.
InCooldownOf(w, o) ==
    /\ w.type = o.type
    /\ SameSymbol(w.tick, o.tick)
    /\ w.at > o.at \/ (w.at = o.at /\ w.after > o.after)
    /\ w.at - o.at < TRIGGER_COOLDOWN

\* C26 as stated: a Trigger write that failed is followed by no write for its
\* (symbol, kind) until the cooldown has elapsed.
C26_FailedWriteConsumesCooldown ==
    \A o \in FailedWrites, w \in triggerWrites : ~InCooldownOf(w, o)

\* C26: the cooldown of a key is recorded when its write is issued, before
\* the insert resolves, and a write that failed is followed by no write for
\* its (symbol, kind) until the cooldown has elapsed, unless the detector was
\* cleared in between.
C26_FailedWriteConsumesCooldownUnlessCleared ==
    /\ \A w \in triggerWrites :
          w.epoch = epoch
          => recentTriggers[<<tickers[w.tick].symbol, w.type>>] >= w.at
    /\ \A o \in FailedWrites, w \in triggerWrites :
          w.epoch = o.epoch => ~InCooldownOf(w, o)

\* A write failed, and a later ticker of the same epoch that qualifies for
\* the same kind inside the cooldown was handled.
C26_Witness ==
    \E o \in FailedWrites : \E j \in Ticks :
        /\ o.type = "volume_spike"
        /\ j > o.tick
        /\ SameSymbol(j, o.tick)
        /\ Qualifies(j)
        /\ ~tickers[j].shouldBlock
        /\ tickers[j].epoch = o.epoch
        /\ tickers[j].at - o.at < TRIGGER_COOLDOWN
        /\ WritesOf(j, "volume_spike") = {}

\* ---- C27
\* The key is not in cooldown when the step begins.
KeyFree(symbol, type) ==
    \/ recentTriggers[<<symbol, type>>] = Absent
    \/ now - recentTriggers[<<symbol, type>>] >= TRIGGER_COOLDOWN

\* The step issues the write of ticker i for the kind.
WrittenNow(i, type) ==
    \E w \in triggerWrites' \ triggerWrites : w.tick = i /\ w.type = type

\* The conditions, on what a ticker met.
SpikeMet(o) ==
    /\ o.baseline > 0
    /\ o.volume * BASELINE_DEN * 100 > VOLUME_SPIKE_THRESHOLD_PCT * o.baseline

MoveMet(price, oldest) ==
    Abs(price - oldest) * 1000 >= PRICE_MOVE_THRESHOLD_PERMILLE * oldest

\* The ticker handled by this step issues the write of every kind whose
\* condition it meets and whose own key is free, whatever the other key
\* holds; in v3.2.0 the price check waits for the volume insert.
TickerStepPerKey ==
    Len(tickers') = Len(tickers) + 1 =>
    LET i == Len(tickers')
        o == tickers'[i]
    IN  /\ (~o.shouldBlock /\ SpikeMet(o) /\ KeyFree(o.symbol, "volume_spike"))
           => WrittenNow(i, "volume_spike")
        /\ (/\ ~o.shouldBlock
            /\ MoveMet(o.price, o.oldest)
            /\ KeyFree(o.symbol, "price_move")
            /\ build = "v1.2.0" \/ ~WrittenNow(i, "volume_spike"))
           => WrittenNow(i, "price_move")

\* v3.2.0: when the volume insert of a ticker resolves, its price check runs,
\* and the volume trigger just recorded does not stand in its way.
ResumedStepPerKey ==
    \A t \in inserts \ inserts' :
        (/\ build = "v3.2.0"
         /\ t.type = "volume_spike"
         /\ history[t.symbol] # <<>>
         /\ MoveMet(t.price, history[t.symbol][1].price)
         /\ KeyFree(t.symbol, "price_move")
         /\ ~(activeBreakers[t.symbol].active
              /\ now < activeBreakers[t.symbol].expiresAt))
        => WrittenNow(t.tick, "price_move")

\* Keys of two symbols, and the maps of recorded triggers over them.
TwoSymbolKeys == {"BTCUSDT", "ETHUSDT"} \X TriggerTypes

RecordedMaps == [TwoSymbolKeys -> {Absent, 0, 4}]

\* Recording a trigger for one key leaves the cooldown of every other key as
\* it was.
RecordTouchesOneKey ==
    \A r \in RecordedMaps : \A k1 \in TwoSymbolKeys, k2 \in TwoSymbolKeys :
        k1 # k2 => (inCooldown(recordTrigger(r, k1), k2) <=> inCooldown(r, k2))

EarlierWrites(i, type) ==
    {w \in triggerWrites :
        w.type = type /\ w.tick # i /\ w.after < i /\ SameSymbol(w.tick, i)}

\* Ticker i met the condition of the kind.
Met(i, type) ==
    IF type = "volume_spike" THEN Qualifies(i) ELSE PriceQualifies(i)

\* The check of the kind ran in the turn of ticker i: in v3.2.0 the price
\* check of a ticker that issued a volume insert runs later.
CheckedInTurn(i, type) ==
    \/ type = "volume_spike"
    \/ build = "v1.2.0"
    \/ WritesOf(i, "volume_spike") = {}

ConfigValues == {"1.5", "0.01", "abc", "0"}

NaN == -1

\* parseFloat of a config value, in thousandths.
parseFloat(value) ==
    CASE value = "1.5" -> 1500
      [] value = "0.01" -> 10
      [] value = "0" -> 0
      [] OTHER -> NaN

\* x || fallback: NaN and 0 are falsy.
OrElse(x, fallback) == IF x = NaN \/ x = 0 THEN fallback ELSE x

\* part_002 411-421: with data, every row of a key sets its threshold to
\* parseFloat(value) || the default of CONFIG; without data (an error)
\* nothing is set.
loadThresholds(thresholds, data) ==
    IF ~data.ok
    THEN thresholds
    ELSE [k \in ThresholdKeys |->
            IF data.rows[k] = NoValue
            THEN thresholds[k]
            ELSE OrElse(parseFloat(data.rows[k]), DefaultThresholds[k])]

\* part_002 406-409: the select is issued; it reads the rows as they are.
callLoadThresholds(ok) ==
    /\ build = "v3.2.0"
    /\ calls = EmptyBag
    /\ calls' = SetToBag({Call("loadThresholds", "",
                               [ok |-> ok, rows |-> config.thresholds])})
    /\ UNCHANGED <<build, posVars, trigVars, config, monitor, timers, sockets,
                   process>>

\* part_002 411-426: the select resolves.
loadThresholdsReturns(c) ==
    /\ BagIn(c, calls)
    /\ c.pc = "loadThresholds"
    /\ calls' = calls (-) SetToBag({c})
    /\ monitor' = [monitor EXCEPT !.thresholds = loadThresholds(@, c.rows)]
    /\ UNCHANGED <<build, posVars, trigVars, config, timers, sockets, process>>

\* The dashboard writes or deletes the row of a threshold.
SetThreshold(k, value) ==
    /\ config.thresholds[k] # value
    /\ config' = [config EXCEPT !.thresholds[k] = value]
    /\ UNCHANGED <<build, posVars, trigVars, monitor, timers, sockets, calls,
                   process>>

NextThresholds ==
    \/ \E ok \in BOOLEAN : callLoadThresholds(ok)
    \/ \E c \in BagToSet(calls) : loadThresholdsReturns(c)
    \/ \E k \in ThresholdKeys, value \in ConfigValues \cup {NoValue} :
          SetThreshold(k, value)

InitThresholds == InitDetector /\ build = "v3.2.0"

SpecThresholds == InitThresholds /\ [][NextThresholds]_vars

\* The load that returns in this step gives no value for the key: it
\* failed, has no row for the key, or the value of the row does not parse.
NoValueFor(c, k) ==
    \/ ~c.rows.ok
    \/ c.rows.rows[k] = NoValue
    \/ parseFloat(c.rows.rows[k]) = NaN

C29_KeepsOrDefault ==
    [][\A c \in BagToSet(calls) : \A k \in ThresholdKeys :
          (BagToSet(calls') = {} /\ c.pc = "loadThresholds")
          => /\ (~c.rows.ok \/ c.rows.rows[k] = NoValue)
                   => monitor'.thresholds[k] = monitor.thresholds[k]
             /\ (/\ c.rows.ok
                 /\ c.rows.rows[k] # NoValue
                 /\ parseFloat(c.rows.rows[k]) \in {NaN, 0})
                   => monitor'.thresholds[k] = DefaultThresholds[k]]_vars

\* ------------------------------------------------ the seed of a baseline
\* This step handles a ticker of the symbol.
TickerOf(sym) ==
    /\ Len(tickers') = Len(tickers) + 1
    /\ tickers'[Len(tickers')].symbol = sym

\* C30: initialize seeds the baseline of a symbol that has none with the
\* volume of the ticker and the time of the call; for a symbol that has a
\* baseline it changes neither the baseline nor the time of its last update,
\* whatever the volume, so a second call is without effect.
C30_InitializeSeedsOnce ==
    [][\A sym \in Symbols :
          TickerOf(sym) =>
          LET volume == tickers'[Len(tickers')].volume
              b == [baselines |-> baselines, lastUpdate |-> lastUpdate]
              seeded == initialize(b, sym, volume)
          IN  /\ baselines[sym] = Absent
                 => /\ baselines'[sym] = volume * BASELINE_DEN
                    /\ lastUpdate'[sym] = now
              /\ (baselines[sym] # Absent /\ ~updateDue(lastUpdate[sym]))
                 => /\ baselines'[sym] = baselines[sym]
                    /\ lastUpdate'[sym] = lastUpdate[sym]
              /\ baselines[sym] # Absent => seeded = b
              /\ \A again \in BaselineVolumes :
                    initialize(seeded, sym, again) = seeded]_vars

\* A second ticker of a symbol, with another volume and within the hour of
\* the first, found the baseline the first one seeded.
C30_Witness ==
    /\ Len(tickers) >= 2
    /\ tickers[1].symbol = tickers[2].symbol
    /\ tickers[1].epoch = tickers[2].epoch
    /\ tickers[1].volume # tickers[2].volume
    /\ tickers[2].at - tickers[1].at < VOLUME_BASELINE_UPDATE
    /\ tickers[2].baseline = tickers[1].volume * BASELINE_DEN
    /\ lastUpdate[tickers[1].symbol] = tickers[1].at

\* ------------------------------------------------ the hourly update
\* The time since the last update of the symbol has reached the interval.
IntervalReached(sym) == now - lastUpdate[sym] >= VOLUME_BASELINE_UPDATE

\* What a ticker step leaves of a baseline that was there before it.
UpdatedIffReached(sym) ==
    LET volume == tickers'[Len(tickers')].volume
    IN  IF IntervalReached(sym)
        THEN /\ lastUpdate'[sym] = now
             /\ baselines'[sym] = update([baselines |-> baselines,
                                          lastUpdate |-> [lastUpdate EXCEPT ![sym] = Absent]],
                                         sym, volume).baselines[sym]
        ELSE /\ lastUpdate'[sym] = lastUpdate[sym]
             /\ baselines'[sym] = baselines[sym]

\* C31: update smooths the baseline and resets the time of the last update
\* if and only if the time since the last update is at least
\* VOLUME_BASELINE_UPDATE, the hour itself included; otherwise it leaves
\* both as they were.
C31_UpdateIffIntervalReached ==
    [][\A sym \in Symbols :
          (TickerOf(sym) /\ baselines[sym] # Absent) => UpdatedIffReached(sym)]_vars

\* The same for the v3.2.0 build alone.
C31_UpdateIffIntervalReached_v3 ==
    [][build = "v3.2.0" =>
       \A sym \in Symbols :
          (TickerOf(sym) /\ baselines[sym] # Absent) => UpdatedIffReached(sym)]_vars

\* In the v1.2.0 build the interval has to be exceeded.
C31_UpdateIffIntervalExceeded_v1 ==
    [][build = "v1.2.0" =>
       \A sym \in Symbols :
          (TickerOf(sym) /\ baselines[sym] # Absent)
          => IF now - lastUpdate[sym] > VOLUME_BASELINE_UPDATE
             THEN lastUpdate'[sym] = now
             ELSE /\ lastUpdate'[sym] = lastUpdate[sym]
                  /\ baselines'[sym] = baselines[sym]]_vars

\* ------------------------------------------------ the volume check
\* Tickers at one instant and a steady price: volumes at, above and below
\* 120% of a baseline of 10, and the volume 0.
SpikeVolumes == {0, 10, 12, 13}

NextSpike ==
    \/ \E sym \in Symbols, p \in SteadyPrices, v \in SpikeVolumes :
          processTicker(sym, p, v)
    \/ \E sym \in Symbols, p \in SteadyPrices, v \in SpikeVolumes :
          handleMessage(sym, p, v)
    \/ \E t \in inserts, ok \in BOOLEAN : createTriggerDone(t, ok)
    \/ clear
    \/ reset

SpecSpike == InitDetector /\ [][NextSpike]_vars

\* currentVolume / baseline > threshold, for a baseline that exists; the
\* quotient by a baseline of 0 is Infinity for a positive volume and NaN for
\* the volume 0.
RatioOver(o) ==
    IF o.baseline = 0
    THEN o.volume > 0
    ELSE o.volume * BASELINE_DEN * 100 > VOLUME_SPIKE_THRESHOLD_PCT * o.baseline

\* The ticker handled by this step, its key free, has its volume trigger
\* written exactly when the predicate holds of it.
SpikeExactlyWhen(P(_)) ==
    Len(tickers') = Len(tickers) + 1 =>
    LET i == Len(tickers')
        o == tickers'[i]
    IN  (/\ o.baseline # Absent
         /\ ~o.shouldBlock
         /\ KeyFree(o.symbol, "volume_spike"))
        => (WrittenNow(i, "volume_spike") <=> P(o))

\* C32: whenever the symbol has a baseline, one seeded with the volume 0
\* included, the volume check reports a spike exactly when
\* currentVolume / baseline is strictly greater than the threshold.
C32_SpikeIffRatioOver == [][SpikeExactlyWhen(RatioOver)]_vars

\* The same for the v1.2.0 build alone.
C32_SpikeIffRatioOver_v1 ==
    [][build = "v1.2.0" => SpikeExactlyWhen(RatioOver)]_vars

\* In v3.2.0 a baseline of 0 is no baseline: the check reports no spike.
C32_SpikeIffPositiveBaseline_v3 ==
    [][build = "v3.2.0" => SpikeExactlyWhen(SpikeMet)]_vars

\* ------------------------------------------------ the breaker during a block
\* The breaker of the symbol is active and has not expired.
Unexpired(sym) == activeBreakers[sym].active /\ now < activeBreakers[sym].expiresAt

\* C33: a ticker handled while the breaker of its symbol is active and
\* unexpired leaves that breaker as it is (activatedAt, expiresAt and reason),
\* however far the price has moved, and is no activation of its own: nothing
\* is logged and no alert goes out for it.
C33_BlockKeepsBreaker ==
    [][\A sym \in Symbols :
          (TickerOf(sym) /\ Unexpired(sym))
          => /\ activeBreakers'[sym] = activeBreakers[sym]
             /\ tickers'[Len(tickers')].shouldBlock
             /\ ~Activated(Len(tickers))']_vars

\* A ticker 5% off the oldest point of its 15 minutes was handled after the
\* activation, during the block, and the breaker is the one activated first.
C33_Witness ==
    \E j \in Ticks :
        LET o == tickers[j]
        IN  /\ o.reason = "ACTIVE"
            /\ o.points15 >= 2
            /\ flashCrash(o.price, o.oldest15)
            /\ activeBreakers[o.symbol].active
            /\ activeBreakers[o.symbol].activatedAt < o.at
            /\ o.at < activeBreakers[o.symbol].expiresAt

\* ------------------------------------------------ a blocked ticker
\* Tickers 50 and 60 minutes after the first: the second lies in the 15
\* minutes of the third, and the baseline of the first is due at the third.
BlockInstants == {50, 60}

NextBlocked ==
    \/ \E sym \in Symbols, p \in TickerPrices, v \in TickerVolumes :
          processTicker(sym, p, v)
    \/ \E sym \in Symbols, p \in TickerPrices, v \in TickerVolumes :
          handleMessage(sym, p, v)
    \/ \E t \in inserts, ok \in BOOLEAN : createTriggerDone(t, ok)
    \/ clear
    \/ reset
    \/ \E t \in BlockInstants : AdvanceMinutes(t)

SpecBlocked == InitDetector /\ [][NextBlocked]_vars

\* The newest point of a window is the price of the ticker of this step, at
\* the time of the step.
NewestIs(points, price) ==
    /\ points # <<>>
    /\ points[Len(points)] = [price |-> price, timestamp |-> now]

\* C34: a ticker the circuit breaker suppresses still seeds the baseline of
\* its symbol or smooths it when due, and its price is the newest point of
\* the 5-minute window and of the 15-minute window; the cooldown map, the
\* inserts and the persisted triggers are as before.
C34_BlockedTickUpdatesState ==
    [][\A sym \in Symbols :
          (TickerOf(sym) /\ tickers'[Len(tickers')].shouldBlock)
          => LET o == tickers'[Len(tickers')]
             IN  /\ IF baselines[sym] = Absent
                    THEN /\ baselines'[sym] = o.volume * BASELINE_DEN
                         /\ lastUpdate'[sym] = now
                    ELSE UpdatedIffReached(sym)
                 /\ NewestIs(history'[sym], o.price)
                 /\ NewestIs(priceHistory15m'[sym], o.price)
                 /\ recentTriggers' = recentTriggers
                 /\ inserts' = inserts
                 /\ triggerWrites' = triggerWrites
                 /\ triggers' = triggers]_vars

\* The last ticker was suppressed, and it smoothed a baseline that was due.
C34_Witness ==
    /\ Len(tickers) >= 2
    /\ LET o == tickers[Len(tickers)]
           before == tickers[Len(tickers) - 1]
       IN  /\ o.shouldBlock
           /\ o.epoch = before.epoch
           /\ o.at = now
           /\ lastUpdate[o.symbol] = now
           /\ baselines[o.symbol] # before.baseline
           /\ NewestIs(history[o.symbol], o.price)
           /\ NewestIs(priceHistory15m[o.symbol], o.price)

\* ------------------------------------------------ the first ticker
\* Ticker i is the first of its symbol since the start or the last reset of
\* the detector.
FirstSeen(i) ==
    ~ \E j \in Ticks :
         j < i /\ tickers[j].symbol = tickers[i].symbol /\ tickers[j].epoch = tickers[i].epoch

\* C35: the first ticker of a symbol, after the start or after a reset of
\* the detector, issues no Trigger write of either kind and activates no
\* breaker, whatever its price and volume: its baseline is its own volume,
\* the oldest point of its 5-minute window is its own price, and the breaker
\* window holds fewer than 2 points.
C35_FirstTickSilent ==
    \A i \in Ticks :
        FirstSeen(i)
        => /\ \A type \in TriggerTypes : WritesOf(i, type) = {}
           /\ \A t \in inserts \cup triggers : t.tick # i
           /\ ~tickers[i].shouldBlock
           /\ ~Activated(i)
           /\ tickers[i].baseline = tickers[i].volume * BASELINE_DEN
           /\ tickers[i].oldest = tickers[i].price
           /\ tickers[i].points15 < 2

\* A first ticker after a reset, with 130% of the volume of the ticker
\* before the reset and 5% off its price, at the same instant.
C35_Witness ==
    \E i \in Ticks :
        /\ i > 1
        /\ FirstSeen(i)
        /\ tickers[i - 1].symbol = tickers[i].symbol
        /\ tickers[i - 1].at = tickers[i].at
        /\ tickers[i].volume * 100 > VOLUME_SPIKE_THRESHOLD_PCT * tickers[i - 1].volume
        /\ flashCrash(tickers[i].price, tickers[i - 1].price)

\* ------------------------------------------------ one feed connection
\* The connections that are open and deliver tickers.
OpenSockets == {i \in SocketIds : sockets[i] = "open"}

\* C36: at any time at most one feed connection is open, whatever the order
\* of status checks, pair-list changes, closes and reconnect timers; no
\* ticker reaches the detectors over two connections.
C36_OneOpenConnection == Cardinality(OpenSockets) <= 1

\* The same for each build alone.
C36_OneOpenConnection_v1 == build = "v1.2.0" => Cardinality(OpenSockets) <= 1

C36_OneOpenConnection_v3 == build = "v3.2.0" => Cardinality(OpenSockets) <= 1

\* ------------------------------------------------ a failed update
\* The update of the call returns without having changed a row: with an
\* error, or with no row affected.  A successful update of an event goes on
\* to its notification.
UpdateFailed(t) ==
    /\ UpdateResolves(t)
    /\ t.eventType # ""
    /\ ~ \E u \in tasks' : u.tick = t.tick /\ u.id = t.id /\ u.pc = "notify"

KeepsLocalCopies(t) ==
    \A s \in LocalCopies(activeStrategies, t) : s \in LocalCopies(activeStrategies', t)

\* C37: when the update of a strategy returns an error or affects no row,
\* the strategy in memory keeps its targets_hit and status and stays
\* tracked.
C37_FailedUpdateKeepsMemory ==
    [][\A t \in tasks : UpdateFailed(t) => KeepsLocalCopies(t)]_vars

\* The same for the v3.2.0 build alone, which never writes to the map.
C37_FailedUpdateKeepsMemory_v3 ==
    [][build = "v3.2.0" => \A t \in tasks : UpdateFailed(t) => KeepsLocalCopies(t)]_vars

\* v1.2.0: the copy in memory is what the call meant to write, whether the
\* write took place or not.
C37_MemoryAdvancesRegardless_v1 ==
    [][build = "v1.2.0" => \A t \in tasks : UpdateFailed(t) => InMemoryAsUpdated(t)]_vars

\* ------------------------------------------------ the windows after an add
\* The window holds the point just added as its newest, its timestamps do
\* not decrease, and no point is older than the length of the window.
WindowOk(points, price, length) ==
    /\ NewestIs(points, price)
    /\ \A k \in 1..(Len(points) - 1) : points[k].timestamp <= points[k + 1].timestamp
    /\ \A k \in 1..Len(points) : now - points[k].timestamp <= length

\* C38: after the add of a ticker to the 5-minute window, and after its
\* addPrice to the 15-minute window of the breaker, the window of the symbol
\* is not empty, ends with the point just added, is ordered by time and
\* holds no point older than its length.
C38_WindowInvariant ==
    [][\A sym \in Symbols :
          TickerOf(sym)
          => /\ WindowOk(history'[sym], tickers'[Len(tickers')].price, PRICE_WINDOW)
             /\ build = "v3.2.0"
                => WindowOk(priceHistory15m'[sym], tickers'[Len(tickers')].price,
                            CIRCUIT_BREAKER_WINDOW)]_vars

\* Three tickers of one run of the detector, the first 15 minutes and more
\* before the third: both windows have dropped it and hold the other two.
C38_Witness ==
    /\ Len(tickers) = 3
    /\ tickers[1].epoch = tickers[3].epoch
    /\ tickers[3].at = now
    /\ now - tickers[1].at >= CIRCUIT_BREAKER_WINDOW
    /\ \A sym \in Symbols :
          /\ Len(history[sym]) = 2
          /\ Len(priceHistory15m[sym]) = 2
          /\ WindowOk(history[sym], tickers[3].price, PRICE_WINDOW)
          /\ WindowOk(priceHistory15m[sym], tickers[3].price, CIRCUIT_BREAKER_WINDOW)

\* ------------------------------------------------ a failed reload
\* The select of a reload resolves in this step and it is no success: a
\* success marks every call in flight as holding objects of the old map and
\* forgets the rows that were found missing.
ReloadFails ==
    /\ reload.pending
    /\ ~reload'.pending
    /\ \/ \E t \in tasks' : ~t.stale
       \/ zeroRows' # {}

\* C39: a reload that fails leaves the map of tracked strategies exactly as
\* it was, and no reload is pending after it, so that the next firing of the
\* reload timer queries again.
C39_FailedReloadKeepsMap ==
    [][ReloadFails
       => /\ activeStrategies' = activeStrategies
          /\ tasks' = tasks
          /\ reload' = Idle]_vars

\* A reload is to resolve while a call holds an object of the map, and its
\* rows are not what the map holds: the row was paused since the last load.
C39_Witness ==
    /\ reload.pending
    /\ GroupBySymbol(reload.rows) # activeStrategies
    /\ Tracked(activeStrategies) # {}
    /\ \E t \in tasks : ~t.stale

\* With the timers of the service: the select of a reload that resolves,
\* failed or not, leaves the reload interval scheduled and the monitor
\* active.
C39_ReloadKeepsTimer ==
    [][(reload.pending /\ ~reload'.pending /\ process' = process)
       => /\ timers'["reloadTimer"] = timers["reloadTimer"]
          /\ monitor'.isActive = monitor.isActive]_vars

====
